---- MODULE Spec2Model ----
(***************************************************************************)
(* Model of the scrape endpoint (src/api/scrape.js): the request handler,  *)
(* the bounded fetchers, the plain-text and HTML extraction and the text   *)
(* normaliser.                                                             *)
(*                                                                         *)
(* Strings.  A JavaScript string is modelled as a sequence of items        *)
(* <<u, n>>: the unit u repeated n times.  A unit is one character, or     *)
(* the two characters "z " (a word followed by a blank).  Only the units   *)
(* "z" and "z " occur with n > 1, they stand for long runs of filler       *)
(* prose; the letter z occurs in no pattern of the source.  An item        *)
(* <<"z ", n>> is always followed by an item <<"z", k>> so that no match   *)
(* of a whitespace pattern begins or ends inside an item.  With that, the  *)
(* patterns of the source can be matched item by item.                     *)
(***************************************************************************)
EXTENDS Integers, Sequences, FiniteSets, TLC

\* ------------------------------------------------------------------------
\* Strings
\* ------------------------------------------------------------------------

\* The string whose characters are the elements of the tuple t.
S(t) == [i \in 1..Len(t) |-> <<t[i], 1>>]

\* n copies of the character z.
Zs(n) == IF n = 0 THEN << >> ELSE << <<"z", n>> >>

\* n words "z" separated by single blanks (2n - 1 characters), n >= 1.
Words(n) == IF n = 1 THEN << <<"z", 1>> >> ELSE << <<"z ", n - 1>>, <<"z", 1>> >>

\* The number of characters of an item.
ItemLen(it) == (IF it[1] = "z " THEN 2 ELSE 1) * it[2]

RECURSIVE LenOf(_, _, _)
LenOf(s, lo, hi) ==
    IF lo > hi THEN 0
    ELSE IF lo = hi THEN ItemLen(s[lo])
    ELSE LenOf(s, lo, (lo + hi) \div 2) + LenOf(s, (lo + hi) \div 2 + 1, hi)

\* String.prototype.length
StrLen(s) == LenOf(s, 1, Len(s))

WhiteSpace == {" ", "\n", "\r", "\t"}

Digits == {"0", "1", "2", "3", "4", "5", "6", "7", "8", "9"}

IsSpaceItem(it) == it[1] \in WhiteSpace

\* String.prototype.toLowerCase on one character.
LowerChar(c) ==
    CASE c = "A" -> "a" [] c = "B" -> "b" [] c = "C" -> "c" [] c = "D" -> "d"
      [] c = "E" -> "e" [] c = "F" -> "f" [] c = "G" -> "g" [] c = "H" -> "h"
      [] c = "I" -> "i" [] c = "J" -> "j" [] c = "K" -> "k" [] c = "L" -> "l"
      [] c = "M" -> "m" [] c = "N" -> "n" [] c = "O" -> "o" [] c = "P" -> "p"
      [] c = "Q" -> "q" [] c = "R" -> "r" [] c = "S" -> "s" [] c = "T" -> "t"
      [] c = "U" -> "u" [] c = "V" -> "v" [] c = "W" -> "w" [] c = "X" -> "x"
      [] c = "Y" -> "y" [] c = "Z" -> "z" [] OTHER -> c

ToLowerCase(s) == [i \in 1..Len(s) |-> <<LowerChar(s[i][1]), s[i][2]>>]

\* The characters of the tuple lit occur in s from item i on.
LitAt(lit, s, i, ci) ==
    /\ i >= 1
    /\ i + Len(lit) - 1 <= Len(s)
    /\ \A k \in 1..Len(lit) :
          /\ s[i + k - 1][2] = 1
          /\ IF ci THEN LowerChar(s[i + k - 1][1]) = LowerChar(lit[k])
                   ELSE s[i + k - 1][1] = lit[k]

\* String.prototype.includes / endsWith / indexOf for a literal.
Includes(s, lit) == \E i \in 1..Len(s) + 1 : LitAt(lit, s, i, FALSE)

EndsWith(s, lit) == LitAt(lit, s, Len(s) - Len(lit) + 1, FALSE)

\* A string never ends inside an item <<"z ", n>>: the last word and blank
\* of such an item are written out.
Expose(s) ==
    IF s # << >> /\ s[Len(s)][1] = "z "
    THEN SubSeq(s, 1, Len(s) - 1)
         \o (IF s[Len(s)][2] = 1 THEN << >> ELSE << <<"z ", s[Len(s)][2] - 1>> >>)
         \o << <<"z", 1>>, <<" ", 1>> >>
    ELSE s

RECURSIVE TakeItems(_, _)
TakeItems(s, k) ==
    IF k <= 0 \/ s = << >> THEN << >>
    ELSE LET it == Head(s)
         IN IF ItemLen(it) <= k THEN <<it>> \o TakeItems(Tail(s), k - ItemLen(it))
            ELSE IF it[1] = "z "
                 THEN (IF k \div 2 = 0 THEN << >> ELSE << <<"z ", k \div 2>> >>)
                      \o (IF k % 2 = 1 THEN << <<"z", 1>> >> ELSE << >>)
                 ELSE << <<it[1], k>> >>

\* The first k characters of s (String.prototype.substring(0, k)).
Take(s, k) == Expose(TakeItems(s, k))

\* String.prototype.trim
Trim(s) ==
    LET keep == {i \in 1..Len(s) : ~IsSpaceItem(s[i])}
    IN IF keep = {} THEN << >>
       ELSE SubSeq(s, CHOOSE i \in keep : \A j \in keep : i <= j,
                      CHOOSE i \in keep : \A j \in keep : i >= j)

\* text.split(/\s+/): the number of pieces, empty pieces included.  There is
\* one more piece than there are maximal runs of white space.
WsRunsAt(s, k) ==
    IF s[k][1] = "z " THEN s[k][2]
    ELSE IF IsSpaceItem(s[k]) /\ (k = 1 \/ ~IsSpaceItem(s[k - 1])) THEN 1
    ELSE 0

RECURSIVE WsRuns(_, _, _)
WsRuns(s, lo, hi) ==
    IF lo > hi THEN 0
    ELSE IF lo = hi THEN WsRunsAt(s, lo)
    ELSE WsRuns(s, lo, (lo + hi) \div 2) + WsRuns(s, (lo + hi) \div 2 + 1, hi)

SplitCount(s) == WsRuns(s, 1, Len(s)) + 1

\* text.split(/\s+/).filter(w => w.length > 0).length
WordCount(s) ==
    IF s = << >> THEN 0
    ELSE SplitCount(s)
         - (IF IsSpaceItem(s[1]) THEN 1 ELSE 0)
         - (IF IsSpaceItem(s[Len(s)]) THEN 1 ELSE 0)

\* ------------------------------------------------------------------------
\* Regular expressions
\*
\* A pattern is a record: [t |-> "lit", s |-> <<characters>>],
\* [t |-> "cls", neg, set] (a character class), [t |-> "seq", parts],
\* [t |-> "alt", opts], [t |-> "rep", r, min, greedy] (r{min,}) and
\* [t |-> "cap", r] (the capture group).  Match returns the ways the pattern
\* matches s from item i, in the order a backtracking matcher tries them;
\* each is <<end, capture start, capture end>>, positions being item
\* indices and end the first item after the match.
\* ------------------------------------------------------------------------

Lit(t) == [t |-> "lit", s |-> t]

Cls(set) == [t |-> "cls", neg |-> FALSE, set |-> set]

NotCls(set) == [t |-> "cls", neg |-> TRUE, set |-> set]

SeqOf(parts) == [t |-> "seq", parts |-> parts]

AltOf(opts) == [t |-> "alt", opts |-> opts]

Star(r) == [t |-> "rep", r |-> r, min |-> 0, greedy |-> TRUE]

Plus(r) == [t |-> "rep", r |-> r, min |-> 1, greedy |-> TRUE]

AtLeast(r, k) == [t |-> "rep", r |-> r, min |-> k, greedy |-> TRUE]

LazyStar(r) == [t |-> "rep", r |-> r, min |-> 0, greedy |-> FALSE]

Cap(r) == [t |-> "cap", r |-> r]

\* . (any character but a line terminator) and [\s\S] (any character)
Dot == NotCls({"\n", "\r"})

AnyChar == NotCls({})

\* Every character of the item is in the class.
ItemIn(it, neg, set) ==
    \A c \in (IF it[1] = "z " THEN {"z", " "} ELSE {it[1]}) : (c \in set) # neg

\* A later capture replaces an earlier one.
Join(h, r) == <<r[1], IF r[2] # 0 THEN r[2] ELSE h[2], IF r[2] # 0 THEN r[3] ELSE h[3]>>

\* cls{min,}: the run of items of the class that begins at item i ends
\* before item i + n; the matcher tries the longest (greedy) or the shortest
\* (lazy) repetition first.
ClassRun(re, s, i) ==
    LET n    == Cardinality({j \in i..Len(s) :
                                \A k \in i..j : ItemIn(s[k], re.r.neg, re.r.set)})
        ways == n - re.min + 1
    IN IF ways <= 0 THEN << >>
       ELSE IF re.greedy THEN [x \in 1..ways |-> <<i + n - x + 1, 0, 0>>]
       ELSE [x \in 1..ways |-> <<i + re.min + x - 1, 0, 0>>]

\* The steps of the matcher: match the pattern re at item i; match the
\* parts k.. of a sequence at item i; continue the ways hs[lo..hi] of
\* matching part k with the parts after it; try the options k.. of an
\* alternative at item i; repeat re.r once more at item i after count
\* repetitions; continue the ways hs[lo..hi] of one more repetition.
AtJob(re, i) == [op |-> "at", re |-> re, i |-> i]

SeqJob(parts, k, i) == [op |-> "seq", parts |-> parts, k |-> k, i |-> i]

SeqRestJob(hs, lo, hi, parts, k) ==
    [op |-> "seqrest", hs |-> hs, lo |-> lo, hi |-> hi, parts |-> parts, k |-> k]

AltJob(opts, k, i) == [op |-> "alt", opts |-> opts, k |-> k, i |-> i]

RepJob(re, i, count) == [op |-> "rep", re |-> re, i |-> i, count |-> count]

RepRestJob(hs, lo, hi, re, count) ==
    [op |-> "represt", hs |-> hs, lo |-> lo, hi |-> hi, re |-> re, count |-> count]

RECURSIVE Matches(_, _, _)
Matches(j, s, ci) ==
    CASE j.op = "at" ->
            (CASE j.re.t = "lit" ->
                    IF LitAt(j.re.s, s, j.i, ci)
                    THEN << <<j.i + Len(j.re.s), 0, 0>> >> ELSE << >>
               [] j.re.t = "cls" ->
                    IF j.i <= Len(s) /\ ItemIn(s[j.i], j.re.neg, j.re.set)
                    THEN << <<j.i + 1, 0, 0>> >> ELSE << >>
               [] j.re.t = "seq" -> Matches(SeqJob(j.re.parts, 1, j.i), s, ci)
               [] j.re.t = "alt" -> Matches(AltJob(j.re.opts, 1, j.i), s, ci)
               [] j.re.t = "rep" ->
                    IF j.re.r.t = "cls" THEN ClassRun(j.re, s, j.i)
                    ELSE Matches(RepJob(j.re, j.i, 0), s, ci)
               [] j.re.t = "cap" ->
                    LET m == Matches(AtJob(j.re.r, j.i), s, ci)
                    IN [x \in 1..Len(m) |-> <<m[x][1], j.i, m[x][1]>>])
      [] j.op = "seq" ->
            IF j.k > Len(j.parts) THEN << <<j.i, 0, 0>> >>
            ELSE LET hs == Matches(AtJob(j.parts[j.k], j.i), s, ci)
                 IN Matches(SeqRestJob(hs, 1, Len(hs), j.parts, j.k), s, ci)
      [] j.op = "seqrest" ->
            IF j.lo > j.hi THEN << >>
            ELSE IF j.lo = j.hi
            THEN LET rs == Matches(SeqJob(j.parts, j.k + 1, j.hs[j.lo][1]), s, ci)
                 IN [x \in 1..Len(rs) |-> Join(j.hs[j.lo], rs[x])]
            ELSE LET mid == (j.lo + j.hi) \div 2
                 IN Matches(SeqRestJob(j.hs, j.lo, mid, j.parts, j.k), s, ci)
                    \o Matches(SeqRestJob(j.hs, mid + 1, j.hi, j.parts, j.k), s, ci)
      [] j.op = "alt" ->
            IF j.k > Len(j.opts) THEN << >>
            ELSE Matches(AtJob(j.opts[j.k], j.i), s, ci)
                 \o Matches(AltJob(j.opts, j.k + 1, j.i), s, ci)
      [] j.op = "rep" ->
            LET hs   == Matches(AtJob(j.re.r, j.i), s, ci)
                more == Matches(RepRestJob(hs, 1, Len(hs), j.re, j.count), s, ci)
                stop == IF j.count >= j.re.min THEN << <<j.i, 0, 0>> >> ELSE << >>
            IN IF j.re.greedy THEN more \o stop ELSE stop \o more
      [] j.op = "represt" ->
            IF j.lo > j.hi THEN << >>
            ELSE IF j.lo = j.hi
            THEN LET rs == Matches(RepJob(j.re, j.hs[j.lo][1], j.count + 1), s, ci)
                 IN [x \in 1..Len(rs) |-> Join(j.hs[j.lo], rs[x])]
            ELSE LET mid == (j.lo + j.hi) \div 2
                 IN Matches(RepRestJob(j.hs, j.lo, mid, j.re, j.count), s, ci)
                    \o Matches(RepRestJob(j.hs, mid + 1, j.hi, j.re, j.count), s, ci)

\* The ways re matches s from item i on, in the order the matcher tries them.
Match(re, s, i, ci) == Matches(AtJob(re, i), s, ci)

\* The first match of re in s at or after item from:
\* <<start, end, capture start, capture end>>, or << >>.
MatchAt(i, m) == <<i, m[1], m[2], m[3]>>

FirstMatch(re, s, starts, ci) ==
    IF starts = {} THEN << >>
    ELSE MatchAt(CHOOSE x \in starts : \A y \in starts : x <= y,
                 Match(re, s, CHOOSE x \in starts : \A y \in starts : x <= y, ci)[1])

ExecFrom(re, s, from, ci) ==
    FirstMatch(re, s, {i \in from..Len(s) : Match(re, s, i, ci) # << >>}, ci)

\* RegExp.prototype.exec with the g flag, repeated until it returns null:
\* the matches in order.
NextFrom(m) == IF m[2] > m[1] THEN m[2] ELSE m[1] + 1

RECURSIVE ExecAll(_, _, _, _)
ExecRest(re, s, m, ci) ==
    IF m = << >> THEN << >> ELSE <<m>> \o ExecAll(re, s, NextFrom(m), ci)

ExecAll(re, s, from, ci) == ExecRest(re, s, ExecFrom(re, s, from, ci), ci)

\* The matched text of a match.
Group0(s, m) == SubSeq(s, m[1], m[2] - 1)

\* String.prototype.replace(/re/g, rep)
RECURSIVE Splice(_, _, _, _, _)
Splice(s, ms, k, from, rep) ==
    IF k > Len(ms) THEN SubSeq(s, from, Len(s))
    ELSE SubSeq(s, from, ms[k][1] - 1) \o rep \o Splice(s, ms, k + 1, ms[k][2], rep)

Replace(s, re, rep, ci) ==
    IF s = << >> THEN << >> ELSE Splice(s, ExecAll(re, s, 1, ci), 1, 1, rep)

\* A chain of replace calls: s.replace(rules[k][1], rules[k][2]) for k, k + 1, ...
RECURSIVE ReplaceEach(_, _, _, _)
ReplaceEach(s, rules, k, ci) ==
    IF k > Len(rules) THEN s
    ELSE ReplaceEach(Replace(s, rules[k][1], rules[k][2], ci), rules, k + 1, ci)

\* Array.prototype.join
RECURSIVE JoinWith(_, _)
JoinWith(parts, sep) ==
    IF parts = << >> THEN << >>
    ELSE IF Len(parts) = 1 THEN parts[1]
    ELSE parts[1] \o sep \o JoinWith(Tail(parts), sep)

\* ------------------------------------------------------------------------
\* Text normaliser
\* ------------------------------------------------------------------------

\* /<[^>]+>/g
AnyTag == SeqOf(<<Lit(<<"<">>), Plus(NotCls({">"})), Lit(<<">">>)>>)

\* /\s+/g
WsRun == Plus(Cls(WhiteSpace))

\* The replace calls of cleanText, in order.
cleanRules ==
    << <<Lit(<<"&", "q", "u", "o", "t", ";">>), S(<<"\"">>)>>,
       <<Lit(<<"&", "a", "m", "p", ";">>), S(<<"&">>)>>,
       <<Lit(<<"&", "l", "t", ";">>), S(<<"<">>)>>,
       <<Lit(<<"&", "g", "t", ";">>), S(<<">">>)>>,
       <<Lit(<<"&", "n", "b", "s", "p", ";">>), S(<<" ">>)>>,
       <<Lit(<<"&", "#", "3", "9", ";">>), S(<<"'">>)>>,
       <<Lit(<<"&", "h", "e", "l", "l", "i", "p", ";">>), S(<<".", ".", ".">>)>>,
       <<AnyTag, S(<<" ">>)>>,
       <<WsRun, S(<<" ">>)>> >>

cleanText(text) == Trim(ReplaceEach(text, cleanRules, 1, FALSE))

\* ------------------------------------------------------------------------
\* Extraction strategies
\* ------------------------------------------------------------------------

\* The captured texts of all matches of re in s, in order.
\* The captured texts of the matches ms.
Groups(s, ms) == [k \in 1..Len(ms) |-> SubSeq(s, ms[k][3], ms[k][4] - 1)]

Captures(re, s, ci) == Groups(s, ExecAll(re, s, 1, ci))

\* arr.map(cleanText)
Cleaned(caps) == [k \in 1..Len(caps) |-> cleanText(caps[k])]

LongerThan(texts, n) == SelectSeq(texts, LAMBDA x : StrLen(x) > n)

\* <name[^>]*>
OpenTag(name) == SeqOf(<<Lit(<<"<">> \o name), Star(NotCls({">"})), Lit(<<">">>)>>)

\* <name[^>]*attr[^>]*>
OpenTagWith(name, attr) ==
    SeqOf(<<Lit(<<"<">> \o name), Star(NotCls({">"})), Lit(attr),
            Star(NotCls({">"})), Lit(<<">">>)>>)

\* ([^<]+)<
TextUpToTag == SeqOf(<<Cap(Plus(NotCls({"<"}))), Lit(<<"<">>)>>)

\* /<name[^>]*>[\s\S]*?<\/name>/gi
Region(name) ==
    SeqOf(<<OpenTag(name), LazyStar(AnyChar), Lit(<<"<", "/">> \o name \o <<">">>)>>)

\* /<!--[\s\S]*?-->/gi
CommentRegion == SeqOf(<<Lit(<<"<", "!", "-", "-">>), LazyStar(AnyChar), Lit(<<"-", "-", ">">>)>>)

\* (?:main|article|section|div)
ContainerName == AltOf(<<Lit(<<"m", "a", "i", "n">>), Lit(<<"a", "r", "t", "i", "c", "l", "e">>), Lit(<<"s", "e", "c", "t", "i", "o", "n">>), Lit(<<"d", "i", "v">>)>>)

\* (?:content|post|article|entry)
ContentWord == AltOf(<<Lit(<<"c", "o", "n", "t", "e", "n", "t">>), Lit(<<"p", "o", "s", "t">>), Lit(<<"a", "r", "t", "i", "c", "l", "e">>), Lit(<<"e", "n", "t", "r", "y">>)>>)

\* attr="[^"]*(?:content|post|article|entry)[^"]*"[^>]*
ContentAttr(attr) ==
    SeqOf(<<Lit(attr \o <<"=", "\"">>), Star(NotCls({"\""})), ContentWord,
            Star(NotCls({"\""})), Lit(<<"\"">>), Star(NotCls({">"}))>>)

\* contentRegex of extractGenericContent
contentRegex ==
    SeqOf(<<Lit(<<"<">>), ContainerName, Star(NotCls({">"})),
            AltOf(<<ContentAttr(<<"c", "l", "a", "s", "s">>), ContentAttr(<<"i", "d">>), Lit(<<">">>)>>),
            LazyStar(AnyChar), Lit(<<"<", "/">>), ContainerName, Lit(<<">">>)>>)

\* (?:p|h[1-6])
ParaName == AltOf(<<Lit(<<"p">>), SeqOf(<<Lit(<<"h">>), Cls({"1", "2", "3", "4", "5", "6"})>>)>>)

\* [^<]+(?:<[^>]+>[^<]*<\/[^>]+>[^<]*)*
InlineText ==
    SeqOf(<<Plus(NotCls({"<"})),
            Star(SeqOf(<<Lit(<<"<">>), Plus(NotCls({">"})), Lit(<<">">>),
                         Star(NotCls({"<"})), Lit(<<"<", "/">>), Plus(NotCls({">"})),
                         Lit(<<">">>), Star(NotCls({"<"}))>>))>>)

\* paragraphRegex of extractGenericContent
paragraphRegex ==
    SeqOf(<<Lit(<<"<">>), ParaName, Star(NotCls({">"})), Lit(<<">">>), Cap(InlineText),
            Lit(<<"<", "/">>), ParaName, Lit(<<">">>)>>)

\* extractedContent += match[0] + ' ' for every match
RECURSIVE Containers(_, _, _)
Containers(s, ms, k) ==
    IF k > Len(ms) THEN << >>
    ELSE Group0(s, ms[k]) \o S(<<" ">>) \o Containers(s, ms, k + 1)

\* The regions extractGenericContent removes, in order.
stripRules ==
    << <<Region(<<"s", "c", "r", "i", "p", "t">>), << >> >>,
       <<Region(<<"s", "t", "y", "l", "e">>), << >> >>,
       <<Region(<<"n", "a", "v">>), << >> >>,
       <<Region(<<"h", "e", "a", "d", "e", "r">>), << >> >>,
       <<Region(<<"f", "o", "o", "t", "e", "r">>), << >> >>,
       <<Region(<<"a", "s", "i", "d", "e">>), << >> >>,
       <<CommentRegion, << >> >> >>

\* .replace(/<[^>]+>/g, ' ').replace(/\s+/g, ' ')
flattenRules == << <<AnyTag, S(<<" ">>)>>, <<WsRun, S(<<" ">>)>> >>

extractGenericContent(htmlContent) ==
    LET cleanedHtml == ReplaceEach(htmlContent, stripRules, 1, TRUE)
        found == Containers(cleanedHtml, ExecAll(contentRegex, cleanedHtml, 1, TRUE), 1)
        paragraphs == LongerThan(Cleaned(Captures(paragraphRegex, cleanedHtml, TRUE)), 20)
        extractedContent ==
            IF StrLen(found) < 100
            THEN JoinWith(paragraphs, S(<<"\n", "\n">>))
            ELSE Trim(ReplaceEach(found, flattenRules, 1, FALSE))
    IN cleanText(extractedContent)

\* /<tag[^>]*>([^<]+)</
TagText(name) == SeqOf(<<OpenTag(name), TextUpToTag>>)

\* /<tag[^>]*attr[^>]*>([^<]+)</
TagWithText(name, attr) == SeqOf(<<OpenTagWith(name, attr), TextUpToTag>>)

\* /<tag[^>]*attr[^>]*>[\s\S]*?<inner[^>]*>([^<]+)</
NestedText(name, attr, inner) ==
    SeqOf(<<OpenTagWith(name, attr), LazyStar(AnyChar), OpenTag(inner), TextUpToTag>>)

\* /<div[^>]*attr[^>]*>([\s\S]*?)<\/div>/
DivBody(attr) ==
    SeqOf(<<OpenTagWith(<<"d", "i", "v">>, attr), Cap(LazyStar(AnyChar)), Lit(<<"<", "/", "d", "i", "v", ">">>)>>)

\* /alt\s*=\s*["']([^"']+)["']/gi
altTextRegex ==
    SeqOf(<<Lit(<<"a", "l", "t">>), Star(Cls(WhiteSpace)), Lit(<<"=">>), Star(Cls(WhiteSpace)),
            Cls({"\"", "'"}), Cap(Plus(NotCls({"\"", "'"}))), Cls({"\"", "'"})>>)

\* /<div[^>]*class[^>]*message[^>]*>([^<]+)</gi
messageContainerRegex ==
    SeqOf(<<Lit(<<"<", "d", "i", "v">>), Star(NotCls({">"})), Lit(<<"c", "l", "a", "s", "s">>), Star(NotCls({">"})),
            Lit(<<"m", "e", "s", "s", "a", "g", "e">>), Star(NotCls({">"})), Lit(<<">">>), TextUpToTag>>)

Trimmed(caps) == [k \in 1..Len(caps) |-> Trim(caps[k])]

\* The elements of arr at the indices in keep, in order.
RECURSIVE Pick(_, _, _)
Pick(arr, keep, k) ==
    IF k > Len(arr) THEN << >>
    ELSE (IF k \in keep THEN <<arr[k]>> ELSE << >>) \o Pick(arr, keep, k + 1)

\* arr.filter((msg, index, arr) => arr.indexOf(msg) === index)
Dedupe(arr) ==
    Pick(arr, {k \in 1..Len(arr) : \A j \in 1..(k - 1) : arr[j] # arr[k]}, 1)

IsMessageAlt(altText) ==
    /\ altText # << >>
    /\ ~Includes(ToLowerCase(altText), <<"l", "o", "g", "o">>)
    /\ ~Includes(ToLowerCase(altText), <<"i", "c", "o", "n">>)
    /\ ~Includes(ToLowerCase(altText), <<"i", "m", "a", "g", "e">>)
    /\ ~Includes(ToLowerCase(altText), <<"p", "h", "o", "t", "o">>)
    /\ StrLen(altText) > 10
    /\ StrLen(altText) < 500

\* The replace calls applied to every message, in order.
decodeRules ==
    << <<Lit(<<"&", "q", "u", "o", "t", ";">>), S(<<"\"">>)>>,
       <<Lit(<<"&", "a", "m", "p", ";">>), S(<<"&">>)>>,
       <<Lit(<<"&", "l", "t", ";">>), S(<<"<">>)>>,
       <<Lit(<<"&", "g", "t", ";">>), S(<<">">>)>> >>

DecodeMessage(msg) == ReplaceEach(msg, decodeRules, 1, FALSE)

extractUnsentProject(htmlContent) ==
    LET alts     == SelectSeq(Trimmed(Captures(altTextRegex, htmlContent, TRUE)),
                              IsMessageAlt)
        boxes    == SelectSeq(Trimmed(Captures(messageContainerRegex, htmlContent, TRUE)),
                              LAMBDA m : m # << >> /\ StrLen(m) > 10)
        messages == alts \o boxes
        decoded  == [k \in 1..Len(messages) |-> DecodeMessage(messages[k])]
        cleanedMessages == LongerThan(Dedupe(decoded), 5)
    IN JoinWith(cleanedMessages, S(<<"\n", "\n">>))

extractReddit(htmlContent) ==
    LET titles   == Cleaned(Captures(TagText(<<"h", "3">>), htmlContent, TRUE))
        comments == Cleaned(Captures(NestedText(<<"d", "i", "v">>, <<"d", "a", "t", "a", "-", "t", "e", "s", "t", "i", "d", "=", "\"", "c", "o", "m", "m", "e", "n", "t", "\"">>, <<"d", "i", "v">>),
                                     htmlContent, TRUE))
    IN JoinWith(titles \o comments, S(<<"\n", "\n">>))

extractTwitter(htmlContent) ==
    JoinWith(Cleaned(Captures(TagWithText(<<"d", "i", "v">>, <<"d", "a", "t", "a", "-", "t", "e", "s", "t", "i", "d", "=", "\"", "t", "w", "e", "e", "t", "T", "e", "x", "t", "\"">>),
                              htmlContent, TRUE)),
             S(<<"\n", "\n">>))

extractMedium(htmlContent) ==
    LET paragraphs == LongerThan(Cleaned(Captures(TagText(<<"p">>), htmlContent, TRUE)), 20)
        \* /<h[1-6][^>]*>([^<]+)</g
        headers    ==
            Cleaned(Captures(SeqOf(<<Lit(<<"<", "h">>), Cls({"1", "2", "3", "4", "5", "6"}), Star(NotCls({">"})),
                                   Lit(<<">">>), TextUpToTag>>),
                             htmlContent, FALSE))
    IN JoinWith(paragraphs \o headers, S(<<"\n", "\n">>))

extractSubstack(htmlContent) == extractMedium(htmlContent)

extractHackerNews(htmlContent) ==
    LET titles   == Cleaned(Captures(TagWithText(<<"a">>, <<"c", "l", "a", "s", "s", "=", "\"", "s", "t", "o", "r", "y", "l", "i", "n", "k", "\"">>),
                                     htmlContent, TRUE))
        comments == LongerThan(
                        Cleaned(Captures(NestedText(<<"d", "i", "v">>, <<"c", "l", "a", "s", "s", "=", "\"", "c", "o", "m", "m", "e", "n", "t", "\"">>, <<"s", "p", "a", "n">>),
                                         htmlContent, TRUE)), 20)
    IN JoinWith(titles \o comments, S(<<"\n", "\n">>))

extractStackOverflow(htmlContent) ==
    JoinWith(LongerThan(Cleaned(Captures(DivBody(<<"c", "l", "a", "s", "s", "=", "\"", "s", "-", "p", "r", "o", "s", "e", "\"">>), htmlContent, TRUE)), 20),
             S(<<"\n", "\n">>))

extractWikipedia(htmlContent) ==
    \* /<p>([^<]+(?:<[^>]+>[^<]*<\/[^>]+>[^<]*)*)<\/p>/gi
    JoinWith(SelectSeq(Cleaned(Captures(SeqOf(<<Lit(<<"<", "p", ">">>), Cap(InlineText), Lit(<<"<", "/", "p", ">">>)>>),
                                        htmlContent, TRUE)),
                       LAMBDA x : StrLen(x) > 50 /\ ~Includes(x, <<"C", "o", "o", "r", "d", "i", "n", "a", "t", "e", "s", ":">>)),
             S(<<"\n", "\n">>))

extractGitHub(htmlContent) ==
    JoinWith(LongerThan(Cleaned(Captures(DivBody(<<"c", "l", "a", "s", "s", "=", "\"", "m", "a", "r", "k", "d", "o", "w", "n", "-", "b", "o", "d", "y", "\"">>), htmlContent, TRUE)),
                        20),
             S(<<"\n", "\n">>))

\* ------------------------------------------------------------------------
\* Numbers and URLs
\* ------------------------------------------------------------------------

\* A JavaScript number: an integer, or NaN.
Num(v) == [nan |-> FALSE, v |-> v]

NaN == [nan |-> TRUE, v |-> 0]

\* A value that may be absent (undefined, or null for a header).
Undefined == [has |-> FALSE, v |-> << >>]

Val(s) == [has |-> TRUE, v |-> s]

\* !x for a string that may be absent
Falsy(p) == ~p.has \/ p.v = << >>

\* The value of the decimal digits s[lo..hi].
RECURSIVE DigitsVal(_, _, _)
DigitsVal(s, lo, hi) ==
    IF hi < lo THEN 0
    ELSE 10 * DigitsVal(s, lo, hi - 1)
         + CASE s[hi][1] = "0" -> 0 [] s[hi][1] = "1" -> 1 [] s[hi][1] = "2" -> 2
             [] s[hi][1] = "3" -> 3 [] s[hi][1] = "4" -> 4 [] s[hi][1] = "5" -> 5
             [] s[hi][1] = "6" -> 6 [] s[hi][1] = "7" -> 7 [] s[hi][1] = "8" -> 8
             [] s[hi][1] = "9" -> 9

\* parseInt(x) in radix 10: leading white space, a sign, then the longest
\* run of digits; NaN when there is no digit, or no string.
parseInt(p) ==
    IF ~p.has THEN NaN
    ELSE LET s     == p.v
             ws    == Cardinality({j \in 1..Len(s) : \A k \in 1..j : IsSpaceItem(s[k])})
             sign  == IF ws < Len(s) /\ s[ws + 1][1] \in {"-", "+"} THEN 1 ELSE 0
             first == ws + sign + 1
             n     == Cardinality({j \in first..Len(s) :
                                      \A k \in first..j : s[k][1] \in Digits})
         IN IF n = 0 THEN NaN
            ELSE IF sign = 1 /\ s[ws + 1][1] = "-"
                 THEN Num(0 - DigitsVal(s, first, first + n - 1))
                 ELSE Num(DigitsVal(s, first, first + n - 1))

\* OrZero with the default 1 in place of 0.
OrOne(n) == IF n.nan THEN 1 ELSE n.v

\* x || 0 for a number
OrZero(n) == IF n.nan THEN 0 ELSE n.v

\* Greater with the comparison >= in place of >.
GreaterOrEqual(n, k) == ~n.nan /\ n.v >= k

\* x > k for a number (false for NaN)
Greater(n, k) == ~n.nan /\ n.v > k

\* new URL(url): the URL parses when it begins with a scheme and a colon
\* and, for a special scheme, has a host.  The host of a special scheme runs
\* from the slashes that follow the colon to the next slash, question mark,
\* hash or port colon.
ParseURL(url) ==
    LET LowerLetters ==
            {"a", "b", "c", "d", "e", "f", "g", "h", "i", "j", "k", "l", "m", "n", "o", "p", "q", "r", "s", "t", "u", "v", "w", "x", "y", "z"}
        colons == {i \in 1..Len(url) : url[i][1] = ":"}
        c      == IF colons = {} THEN 0
                  ELSE CHOOSE i \in colons : \A j \in colons : i <= j
        scheme == ToLowerCase(SubSeq(url, 1, c - 1))
        okScheme == /\ c > 1
                    /\ LowerChar(url[1][1]) \in LowerLetters
                    /\ \A k \in 1..(c - 1) :
                          LowerChar(url[k][1]) \in LowerLetters \cup Digits \cup {"+", "-", "."}
        slashes == Cardinality({j \in (c + 1)..Len(url) :
                                   \A k \in (c + 1)..j : url[k][1] \in {"/", "\\"}})
        h0     == c + slashes + 1
        hostN  == Cardinality({j \in h0..Len(url) :
                                  \A k \in h0..j : url[k][1] \notin {"/", "\\", "?", "#", ":"}})
        host   == ToLowerCase(SubSeq(url, h0, h0 + hostN - 1))
        special == scheme \in
            {S(<<"h", "t", "t", "p">>), S(<<"h", "t", "t", "p", "s">>), S(<<"f", "t", "p">>), S(<<"w", "s">>), S(<<"w", "s", "s">>)}
    IN IF ~okScheme THEN [ok |-> FALSE, protocol |-> << >>, hostname |-> << >>]
       ELSE IF special
       THEN [ok |-> hostN > 0 /\ \A k \in 1..Len(host) : host[k][1] \notin {" ", "<", ">"},
             protocol |-> scheme, hostname |-> host]
       ELSE [ok |-> TRUE, protocol |-> scheme,
             hostname |-> IF slashes = 2 THEN host ELSE << >>]

\* ------------------------------------------------------------------------
\* Classification and plain-text processing
\* ------------------------------------------------------------------------

\* intelligentExtraction that looks for the site in the whole URL.
ClassifyByUrl(htmlContent, url) ==
    LET domain == ToLowerCase(url)
    IN IF Includes(domain, <<"t", "h", "e", "u", "n", "s", "e", "n", "t", "p", "r", "o", "j", "e", "c", "t", ".", "c", "o", "m">>) THEN extractUnsentProject(htmlContent)
       ELSE IF Includes(domain, <<"r", "e", "d", "d", "i", "t", ".", "c", "o", "m">>) THEN extractReddit(htmlContent)
       ELSE IF Includes(domain, <<"t", "w", "i", "t", "t", "e", "r", ".", "c", "o", "m">>) \/ Includes(domain, <<"x", ".", "c", "o", "m">>)
            THEN extractTwitter(htmlContent)
       ELSE IF Includes(domain, <<"m", "e", "d", "i", "u", "m", ".", "c", "o", "m">>) THEN extractMedium(htmlContent)
       ELSE IF Includes(domain, <<"s", "u", "b", "s", "t", "a", "c", "k", ".", "c", "o", "m">>) THEN extractSubstack(htmlContent)
       ELSE IF Includes(domain, <<"n", "e", "w", "s", ".", "y", "c", "o", "m", "b", "i", "n", "a", "t", "o", "r", ".", "c", "o", "m">>) THEN extractHackerNews(htmlContent)
       ELSE IF Includes(domain, <<"s", "t", "a", "c", "k", "o", "v", "e", "r", "f", "l", "o", "w", ".", "c", "o", "m">>) THEN extractStackOverflow(htmlContent)
       ELSE IF Includes(domain, <<"w", "i", "k", "i", "p", "e", "d", "i", "a", ".", "o", "r", "g">>) THEN extractWikipedia(htmlContent)
       ELSE IF Includes(domain, <<"g", "i", "t", "h", "u", "b", ".", "c", "o", "m">>) THEN extractGitHub(htmlContent)
       ELSE extractGenericContent(htmlContent)

intelligentExtraction(htmlContent, url) ==
    LET domain == ToLowerCase(ParseURL(url).hostname)
    IN IF Includes(domain, <<"t", "h", "e", "u", "n", "s", "e", "n", "t", "p", "r", "o", "j", "e", "c", "t", ".", "c", "o", "m">>) THEN extractUnsentProject(htmlContent)
       ELSE IF Includes(domain, <<"r", "e", "d", "d", "i", "t", ".", "c", "o", "m">>) THEN extractReddit(htmlContent)
       ELSE IF Includes(domain, <<"t", "w", "i", "t", "t", "e", "r", ".", "c", "o", "m">>) \/ Includes(domain, <<"x", ".", "c", "o", "m">>)
            THEN extractTwitter(htmlContent)
       ELSE IF Includes(domain, <<"m", "e", "d", "i", "u", "m", ".", "c", "o", "m">>) THEN extractMedium(htmlContent)
       ELSE IF Includes(domain, <<"s", "u", "b", "s", "t", "a", "c", "k", ".", "c", "o", "m">>) THEN extractSubstack(htmlContent)
       ELSE IF Includes(domain, <<"n", "e", "w", "s", ".", "y", "c", "o", "m", "b", "i", "n", "a", "t", "o", "r", ".", "c", "o", "m">>) THEN extractHackerNews(htmlContent)
       ELSE IF Includes(domain, <<"s", "t", "a", "c", "k", "o", "v", "e", "r", "f", "l", "o", "w", ".", "c", "o", "m">>) THEN extractStackOverflow(htmlContent)
       ELSE IF Includes(domain, <<"w", "i", "k", "i", "p", "e", "d", "i", "a", ".", "o", "r", "g">>) THEN extractWikipedia(htmlContent)
       ELSE IF Includes(domain, <<"g", "i", "t", "h", "u", "b", ".", "c", "o", "m">>) THEN extractGitHub(htmlContent)
       ELSE extractGenericContent(htmlContent)

\* String.prototype.indexOf: the first item at which sub occurs in s, 0 if none.
IndexOf(s, sub) ==
    LET at == {i \in 1..(Len(s) - Len(sub) + 1) : SubSeq(s, i, i + Len(sub) - 1) = sub}
    IN IF at = {} THEN 0 ELSE CHOOSE i \in at : \A j \in at : i <= j

\* The Gutenberg cleanup of the handler.
GutenbergCleanup(text) ==
    \* /\*\*\* START OF .* \*\*\*/i and /\*\*\* END OF .* \*\*\*/i
    LET startMatch ==
            ExecFrom(SeqOf(<<Lit(<<"*", "*", "*", " ", "S", "T", "A", "R", "T", " ", "O", "F", " ">>), Star(Dot), Lit(<<" ", "*", "*", "*">>)>>),
                     text, 1, TRUE)
        endMatch ==
            ExecFrom(SeqOf(<<Lit(<<"*", "*", "*", " ", "E", "N", "D", " ", "O", "F", " ">>), Star(Dot), Lit(<<" ", "*", "*", "*">>)>>),
                     text, 1, TRUE)
        afterStart ==
            IF startMatch # << >>
            THEN LET m == Group0(text, startMatch)
                 IN SubSeq(text, IndexOf(text, m) + Len(m), Len(text))
            ELSE text
        endIndex == IF endMatch # << >> THEN IndexOf(afterStart, Group0(text, endMatch)) ELSE 0
    IN IF endMatch # << >> /\ endIndex > 1
       THEN SubSeq(afterStart, 1, endIndex - 1)
       ELSE afterStart

\* The plain-text processing of the handler.
\* .replace(/\r\n/g, '\n').replace(/\n{3,}/g, '\n\n')
lineRules ==
    << <<Lit(<<"\r", "\n">>), S(<<"\n">>)>>, <<AtLeast(Cls({"\n"}), 3), S(<<"\n", "\n">>)>> >>

PlainText(htmlContent, url) ==
    LET normal == Trim(ReplaceEach(htmlContent, lineRules, 1, FALSE))
    IN IF Includes(url, <<"g", "u", "t", "e", "n", "b", "e", "r", "g", ".", "o", "r", "g">>) THEN GutenbergCleanup(normal) ELSE normal

\* ------------------------------------------------------------------------
\* Requests, remote answers and responses
\* ------------------------------------------------------------------------

\* The decimal digits of n >= 0 (template literal `${n}`).
RECURSIVE IntToStr(_)
IntToStr(n) ==
    IF n < 10
    THEN << <<CASE n = 0 -> "0" [] n = 1 -> "1" [] n = 2 -> "2" [] n = 3 -> "3" [] n = 4 -> "4"
                [] n = 5 -> "5" [] n = 6 -> "6" [] n = 7 -> "7" [] n = 8 -> "8" [] n = 9 -> "9",
              1>> >>
    ELSE IntToStr(n \div 10) \o IntToStr(n % 10)

\* (bytes / 1024 / 1024).toFixed(1)
ToFixed1(bytes) ==
    LET tenths == (20 * bytes + 1048576) \div 2097152
    IN IntToStr(tenths \div 10) \o S(<<".">>) \o IntToStr(tenths % 10)

\* Largest batch parameter among the requests.
MaxBatch == 2

\* Largest number of chunks the remote streams to fetchWithEarlyStop.
MaxChunks == 5

UrlHtml == S(<<"h", "t", "t", "p", ":", "/", "/", "a", ".", "i", "o", "/", "p">>)

UrlText == S(<<"h", "t", "t", "p", "s", ":", "/", "/", "g", "u", "t", "e", "n", "b", "e", "r", "g", ".", "o", "r", "g", "/", "b", ".", "t", "x", "t">>)

UrlFtp == S(<<"f", "t", "p", ":", "/", "/", "a", ".", "i", "o", "/", "b", ".", "t", "x", "t">>)

UrlBad == S(<<"a", ".", "i", "o", "/", "p">>)

BatchParams ==
    {Undefined, Val(S(<<"-", "1">>)), Val(S(<<"x">>))} \cup {Val(IntToStr(i)) : i \in 0..MaxBatch}

\* The requests: a batch parameter comes with mode=batch, and once with
\* another mode; the other methods come with one query.
Requests ==
    LET Urls == {Undefined, Val(UrlHtml), Val(UrlText), Val(UrlFtp), Val(UrlBad)}
        Modes == {Undefined, Val(S(<<"s", "a", "m", "p", "l", "e">>)), Val(S(<<"b", "a", "t", "c", "h">>))}
    IN
    {r \in [method : {"GET", "OPTIONS", "POST"}, url : Urls, mode : Modes,
            batch : BatchParams] :
        /\ r.method # "GET" => r.url = Val(UrlHtml) /\ r.mode = Undefined /\ r.batch = Undefined
        /\ r.mode # Val(S(<<"b", "a", "t", "c", "h">>)) => r.batch \in {Undefined, Val(IntToStr(1))}
        /\ r.url \notin {Val(UrlHtml), Val(UrlText)} => r.batch = Undefined}

\* Ok that also takes 404 for a success.
OkOrNotFound(status) == (status >= 200 /\ status <= 299) \/ status = 404

\* response.ok
Ok(status) == status >= 200 /\ status <= 299

Para(text) == S(<<"<", "p", ">">>) \o text \o S(<<"<", "/", "p", ">">>)

\* The bodies the remote serves.
Bodies ==
    {<< >>,
     Zs(49),
     Para(Zs(50)),
     Para(Zs(100000)),
     Words(50001),
     Para(Words(50001)),
     Zs(200001),
     Zs(500000),
     Zs(500001),
     S(<<"*", "*", "*", " ", "S", "T", "A", "R", "T", " ", "O", "F", " ", "X", " ", "*", "*", "*", "\n">>) \o Zs(60) \o S(<<"\n", "*", "*", "*", " ", "E", "N", "D", " ", "O", "F", " ", "X", " ", "*", "*", "*", "\n">>)}

Error(name, message) == [name |-> name, message |-> message]

\* The rejection of fetch() when the remote cannot be reached.
FetchFailed == Error("TypeError", S(<<"f", "e", "t", "c", "h", " ", "f", "a", "i", "l", "e", "d">>))

\* The rejection of fetch() when its signal is aborted.
Aborted == Error("AbortError", S(<<"T", "h", "i", "s", " ", "o", "p", "e", "r", "a", "t", "i", "o", "n", " ", "w", "a", "s", " ", "a", "b", "o", "r", "t", "e", "d">>))

\* The rejection of a body read when the connection breaks.
Terminated == Error("TypeError", S(<<"t", "e", "r", "m", "i", "n", "a", "t", "e", "d">>))

NoError == Error("", << >>)

\* What a pending network operation settles with.
NoResult ==
    [k |-> "none", status |-> 0, header |-> Undefined, text |-> << >>, done |-> FALSE,
     err |-> NoError]

Rejected(err) == [NoResult EXCEPT !.k = "rejected", !.err = err]

Headers(status, header) == [NoResult EXCEPT !.k = "resolved", !.status = status, !.header = header]

Body(text) == [NoResult EXCEPT !.k = "resolved", !.text = text]

\* res.status(status).json(body)
Json(status, body) == [status |-> status, body |-> body]

Failure(status, error) == Json(status, [success |-> FALSE, error |-> error])

MsgInvalidUrl == S(<<"I", "n", "v", "a", "l", "i", "d", " ", "U", "R", "L">>)

MsgNoText == S(<<"C", "o", "u", "l", "d", " ", "n", "o", "t", " ", "e", "x", "t", "r", "a", "c", "t", " ", "m", "e", "a", "n", "i", "n", "g", "f", "u", "l", " ", "t", "e", "x", "t", " ", "f", "r", "o", "m", " ", "t", "h", "i", "s", " ", "U", "R", "L">>)

MsgFailed == S(<<"F", "a", "i", "l", "e", "d", " ", "t", "o", " ", "s", "c", "r", "a", "p", "e", " ", "U", "R", "L">>)

MsgTimedOut == S(<<"R", "e", "q", "u", "e", "s", "t", " ", "t", "i", "m", "e", "d", " ", "o", "u", "t">>)

MsgNoConnect == S(<<"C", "o", "u", "l", "d", " ", "n", "o", "t", " ", "c", "o", "n", "n", "e", "c", "t", " ", "t", "o", " ", "U", "R", "L">>)

TruncationMarker == S(<<"\n", "\n", "[", "T", "r", "u", "n", "c", "a", "t", "e", "d", " ", "f", "o", "r", " ", "p", "r", "o", "c", "e", "s", "s", "i", "n", "g", "]">>)

\* CatchResponse without the AbortError branch.
CatchWithoutAbort(error) ==
    Failure(500, IF Includes(error.message, <<"f", "e", "t", "c", "h">>) THEN MsgNoConnect ELSE MsgFailed)

\* The response of the catch clause of the handler.
CatchResponse(error) ==
    Failure(500, IF error.name = "AbortError" THEN MsgTimedOut
                 ELSE IF Includes(error.message, <<"f", "e", "t", "c", "h">>) THEN MsgNoConnect
                 ELSE MsgFailed)
\* ------------------------------------------------------------------------
\* Thresholds of the source
\* ------------------------------------------------------------------------

LargeFileThreshold == 1000000

CompleteCeiling == 500000

OutputCeiling == 100000

MinOutput == 50

batchSize == 150000

SampleLastByte == 200000

targetWords == 15000

CheckInterval == 10000

\* Lines 408-416: what checkFileSize returns when its HEAD request has
\* settled with r.
FileSize(r) == IF r.k = "rejected" \/ Falsy(r.header) THEN Num(0) ELSE parseInt(r.header)

\* Plan without the large-file response: an unset mode falls through to the
\* complete fetch.
PlanWithoutChoice(size, mode) ==
    IF mode = Val(S(<<"b", "a", "t", "c", "h">>)) /\ Greater(size, LargeFileThreshold) THEN "fetchBatch"
    ELSE IF mode = Val(S(<<"s", "a", "m", "p", "l", "e">>)) /\ Greater(size, LargeFileThreshold) THEN "fetchSample"
    ELSE "fetchComplete"

\* Lines 33-57: what the handler does once the size is known: the
\* large-file response, or the fetcher it calls.
Plan(size, mode) ==
    IF Greater(size, LargeFileThreshold) /\ Falsy(mode) THEN "modeChoice"
    ELSE IF mode = Val(S(<<"b", "a", "t", "c", "h">>)) /\ Greater(size, LargeFileThreshold)
    THEN "fetchBatch"
    ELSE IF mode = Val(S(<<"s", "a", "m", "p", "l", "e">>)) /\ Greater(size, LargeFileThreshold)
    THEN "fetchSample"
    ELSE "fetchComplete"

\* BatchRange whose last byte is the first byte of the next batch.
BatchRangeInclusive(batchNumber) ==
    <<batchNumber * batchSize, batchNumber * batchSize + batchSize>>

\* Lines 511-519: the Range header of fetchBatch.
BatchRange(batchNumber) ==
    <<batchNumber * batchSize, batchNumber * batchSize + batchSize - 1>>

\* TooShort that rejects the empty text only.
IsEmpty(final) == final = << >>

\* Line 97: the final text is too short.
TooShort(final) == StrLen(final) < MinOutput

\* TooLarge with the threshold of the size probe.
OverProbeThreshold(body) == StrLen(body) > LargeFileThreshold

\* Line 446: the body is too large for fetchComplete.
TooLarge(body) == StrLen(body) > CompleteCeiling

\* ------------------------------------------------------------------------
\* The handler
\*
\* One request is handled.  The handler runs from one await to the next in
\* one step; a pending network operation (inflight) settles in a step of
\* the remote, which leaves its result in ready, and the continuation of
\* the handler then takes it.
\* ------------------------------------------------------------------------

VARIABLES
    req,            \* the request: method and query parameters url, mode, batch
    pc,             \* the await the handler is suspended at
    inflight,       \* the pending network operation: none, head, get, body, read
    ready,          \* the result the pending operation has settled with
    timer,          \* the timeout of the fetch: none, armed, cleared, fired
    status,         \* the status of the response the fetch resolved with
    contentLength,  \* the result of checkFileSize
    htmlContent,    \* the fetched body
    extractedText,  \* the extracted text before the final bounding
    text,           \* the text read so far by fetchWithEarlyStop
    reads,          \* the number of chunks read by fetchWithEarlyStop
    calls,          \* the functions the handler has called
    net,            \* the network requests issued
    error,          \* the error caught by the handler
    responses       \* the responses sent

vars ==
    <<req, pc, inflight, ready, timer, status, contentLength, htmlContent, extractedText, text,
      reads, calls, net, error, responses>>

Init ==
    /\ req \in Requests
    /\ pc = "start"
    /\ inflight = "none"
    /\ ready = NoResult
    /\ timer = "none"
    /\ status = 0
    /\ contentLength = Num(0)
    /\ htmlContent = << >>
    /\ extractedText = << >>
    /\ text = << >>
    /\ reads = 0
    /\ calls = << >>
    /\ net = << >>
    /\ error = NoError
    /\ responses = << >>

\* A network request: the function that issues it, the method, the Range
\* header <<first, last>> (or << >>) and whether it carries the abort signal.
Request(fn, method, range, signal) ==
    [fn |-> fn, method |-> method, range |-> range, signal |-> signal]

\* The handler returns with a response.
Respond(r) ==
    /\ responses' = Append(responses, r)
    /\ pc' = "done"
    /\ inflight' = "none"
    /\ ready' = NoResult

\* The handler calls fn, which issues a HEAD request and awaits it.
CallHead(fn) ==
    /\ calls' = Append(calls, fn)
    /\ net' = Append(net, Request(fn, "HEAD", << >>, FALSE))
    /\ inflight' = "head"
    /\ ready' = NoResult
    /\ pc' = fn
    /\ UNCHANGED responses

\* The handler calls fetchComplete, fetchSample or fetchBatch, which arms
\* its timer, issues the GET request and awaits it.
CallFetch(fn, range) ==
    /\ calls' = Append(calls, fn)
    /\ net' = Append(net, Request(fn, "GET", range, TRUE))
    /\ timer' = "armed"
    /\ inflight' = "get"
    /\ ready' = NoResult
    /\ pc' = fn
    /\ UNCHANGED responses

\* Lines 7-32: method and URL validation, then the size probe.
Validate ==
    /\ pc = "start"
    /\ IF req.method = "OPTIONS"
       THEN /\ Respond([status |-> 200, body |-> [ended |-> TRUE]])
            /\ UNCHANGED <<calls, net>>
       ELSE IF req.method # "GET"
       THEN /\ Respond(Failure(405, S(<<"M", "e", "t", "h", "o", "d", " ", "n", "o", "t", " ", "a", "l", "l", "o", "w", "e", "d">>)))
            /\ UNCHANGED <<calls, net>>
       ELSE IF Falsy(req.url)
       THEN /\ Respond(Failure(400, S(<<"U", "R", "L", " ", "p", "a", "r", "a", "m", "e", "t", "e", "r", " ", "i", "s", " ", "r", "e", "q", "u", "i", "r", "e", "d">>)))
            /\ UNCHANGED <<calls, net>>
       ELSE IF ~ParseURL(req.url.v).ok
       THEN /\ Respond(Failure(400, MsgInvalidUrl))
            /\ UNCHANGED <<calls, net>>
       ELSE CallHead("checkFileSize")
    /\ UNCHANGED <<req, timer, status, contentLength, htmlContent, extractedText, text, reads,
                   error>>

\* The large-file response of lines 37-47.
ModeChoice ==
    Json(200, [success |-> TRUE, isLargeFile |-> TRUE, fileSize |-> contentLength'.v,
               fileSizeMB |-> ToFixed1(contentLength'.v),
               options |-> [sample |-> "Get first 10,000 words",
                            batch |-> "Process in batches (experimental)"],
               message |-> "Large file detected. Choose processing method."])

\* Lines 408-416 and 33-57: checkFileSize returns, the plan is chosen and
\* its fetch is started.
CheckFileSizeReturn ==
    /\ pc = "checkFileSize"
    /\ ready.k # "none"
    /\ contentLength' = FileSize(ready)
    /\ IF Plan(contentLength', req.mode) = "modeChoice"
       THEN /\ Respond(ModeChoice)
            /\ UNCHANGED <<calls, net, timer>>
       ELSE IF Plan(contentLength', req.mode) = "fetchBatch"
       THEN CallFetch("fetchBatch", BatchRange(OrZero(parseInt(req.batch))))
       ELSE IF Plan(contentLength', req.mode) = "fetchSample"
       THEN CallFetch("fetchSample", <<0, SampleLastByte>>)
       ELSE CallFetch("fetchComplete", << >>)
    /\ UNCHANGED <<req, status, htmlContent, extractedText, text, reads, error>>

\* Throw without the catch clause: the error ends the handler and no
\* response is sent.
Unhandled(e) ==
    /\ error' = e
    /\ pc' = "done"
    /\ inflight' = "none"
    /\ ready' = NoResult
    /\ UNCHANGED responses

\* An error thrown inside the try block: lines 117-130.
Throw(e) == error' = e /\ Respond(CatchResponse(e))

\* The fetch of fetchComplete settles: lines 433-444.
FetchCompleteReturn ==
    /\ pc = "fetchComplete"
    /\ ready.k # "none"
    /\ status' = IF ready.k = "rejected" THEN status ELSE ready.status
    /\ IF ready.k = "rejected"
       THEN Throw(ready.err) /\ UNCHANGED timer
       ELSE /\ timer' = "cleared"
            /\ IF ~Ok(ready.status)
               THEN Throw(Error("Error", S(<<"H", "T", "T", "P", " ">>) \o IntToStr(ready.status)))
               ELSE /\ pc' = "fetchComplete.text"
                    /\ inflight' = "body"
                    /\ ready' = NoResult
                    /\ UNCHANGED <<responses, error>>
    /\ UNCHANGED <<req, contentLength, htmlContent, extractedText, text, reads, calls, net>>

\* The fetch of fetchSample settles: lines 458-473.
FetchSampleReturn ==
    /\ pc = "fetchSample"
    /\ ready.k # "none"
    /\ status' = IF ready.k = "rejected" THEN status ELSE ready.status
    /\ IF ready.k = "rejected"
       THEN Throw(ready.err) /\ UNCHANGED <<timer, calls, net>>
       ELSE /\ timer' = "cleared"
            /\ IF ~Ok(ready.status) /\ ready.status # 206
               THEN \* fetchWithEarlyStop: fetch(url) without signal or range
                    /\ calls' = Append(calls, "fetchWithEarlyStop")
                    /\ net' = Append(net, Request("fetchWithEarlyStop", "GET", << >>, FALSE))
                    /\ pc' = "fetchWithEarlyStop"
                    /\ inflight' = "get"
                    /\ ready' = NoResult
                    /\ UNCHANGED <<responses, error>>
               ELSE /\ pc' = "fetchSample.text"
                    /\ inflight' = "body"
                    /\ ready' = NoResult
                    /\ UNCHANGED <<responses, calls, net, error>>
    /\ UNCHANGED <<req, contentLength, htmlContent, extractedText, text, reads>>

\* The fetch of fetchBatch settles: lines 518-532.
FetchBatchReturn ==
    /\ pc = "fetchBatch"
    /\ ready.k # "none"
    /\ status' = IF ready.k = "rejected" THEN status ELSE ready.status
    /\ IF ready.k = "rejected"
       THEN Throw(ready.err) /\ UNCHANGED timer
       ELSE /\ timer' = "cleared"
            /\ IF ~Ok(ready.status) /\ ready.status # 206
               THEN Throw(Error("Error", S(<<"B", "a", "t", "c", "h", " ", "f", "e", "t", "c", "h", " ", "f", "a", "i", "l", "e", "d", ":", " ">>) \o IntToStr(ready.status)))
               ELSE /\ pc' = "fetchBatch.text"
                    /\ inflight' = "body"
                    /\ ready' = NoResult
                    /\ UNCHANGED <<responses, error>>
    /\ UNCHANGED <<req, contentLength, htmlContent, extractedText, text, reads, calls, net>>

\* The fetcher returns body to the handler, which calls getContentType
\* (lines 59-60).
ReturnBody(body) ==
    /\ htmlContent' = body
    /\ CallHead("getContentType")
    /\ UNCHANGED error

\* response.text() of fetchComplete settles: lines 444-450.
CompleteTextReturn ==
    /\ pc = "fetchComplete.text"
    /\ ready.k # "none"
    /\ IF ready.k = "rejected"
       THEN Throw(ready.err) /\ UNCHANGED <<htmlContent, calls, net>>
       ELSE IF TooLarge(ready.text)
       THEN /\ Throw(Error("Error", S(<<"F", "i", "l", "e", " ", "t", "o", "o", " ", "l", "a", "r", "g", "e", " ", "f", "o", "r", " ", "c", "o", "m", "p", "l", "e", "t", "e", " ", "p", "r", "o", "c", "e", "s", "s", "i", "n", "g">>)))
            /\ UNCHANGED <<htmlContent, calls, net>>
       ELSE ReturnBody(ready.text)
    /\ UNCHANGED <<req, timer, status, contentLength, extractedText, text, reads>>

\* response.text() of fetchSample or fetchBatch settles: lines 473 and 532.
RangeTextReturn ==
    /\ pc \in {"fetchSample.text", "fetchBatch.text"}
    /\ ready.k # "none"
    /\ IF ready.k = "rejected"
       THEN Throw(ready.err) /\ UNCHANGED <<htmlContent, calls, net>>
       ELSE ReturnBody(ready.text)
    /\ UNCHANGED <<req, timer, status, contentLength, extractedText, text, reads>>

\* The fetch of fetchWithEarlyStop settles: lines 478-483.
EarlyStopFetchReturn ==
    /\ pc = "fetchWithEarlyStop"
    /\ ready.k # "none"
    /\ status' = IF ready.k = "rejected" THEN status ELSE ready.status
    /\ IF ready.k = "rejected"
       THEN Throw(ready.err) /\ UNCHANGED text
       ELSE /\ text' = << >>
            /\ pc' = "fetchWithEarlyStop.read"
            /\ inflight' = "read"
            /\ ready' = NoResult
            /\ UNCHANGED <<responses, error>>
    /\ UNCHANGED <<req, timer, contentLength, htmlContent, extractedText, reads, calls, net>>

\* reader.read() of fetchWithEarlyStop settles: lines 487-506.
ReadReturn ==
    /\ pc = "fetchWithEarlyStop.read"
    /\ ready.k # "none"
    /\ IF ready.k = "rejected"
       THEN Throw(ready.err) /\ UNCHANGED <<text, htmlContent, calls, net>>
       ELSE IF ready.done
       THEN ReturnBody(text) /\ UNCHANGED text
       ELSE /\ text' = text \o ready.text
            /\ IF /\ StrLen(text') % CheckInterval = 0
                  /\ SplitCount(text') > targetWords
               THEN ReturnBody(text')
               ELSE /\ inflight' = "read"
                    /\ ready' = NoResult
                    /\ UNCHANGED <<pc, htmlContent, calls, net, error, responses>>
    /\ UNCHANGED <<req, timer, status, contentLength, extractedText, reads>>

\* Lines 62-90: the text extracted from the body.
Extracted(contentType) ==
    IF Includes(contentType, <<"t", "e", "x", "t", "/", "p", "l", "a", "i", "n">>) \/ EndsWith(req.url.v, <<".", "t", "x", "t">>)
    THEN PlainText(htmlContent, req.url.v)
    ELSE intelligentExtraction(htmlContent, req.url.v)

\* Lines 92-95: the final bounding.
Bounded(extracted) ==
    IF req.mode # Val(S(<<"s", "a", "m", "p", "l", "e">>)) /\ StrLen(extracted) > OutputCeiling
    THEN Take(extracted, OutputCeiling) \o TruncationMarker
    ELSE extracted

\* Success that counts the words of the extracted text, before the final
\* bounding.
SuccessCountingExtracted(final) ==
    Json(200, [success |-> TRUE, text |-> final, wordCount |-> WordCount(extractedText'),
               url |-> req.url.v,
               mode |-> IF Falsy(req.mode) THEN S(<<"c", "o", "m", "p", "l", "e", "t", "e">>) ELSE req.mode.v,
               batch |-> OrZero(parseInt(req.batch))])

\* Lines 108-115: the success response.
Success(final) ==
    Json(200, [success |-> TRUE, text |-> final, wordCount |-> WordCount(final),
               url |-> req.url.v,
               mode |-> IF Falsy(req.mode) THEN S(<<"c", "o", "m", "p", "l", "e", "t", "e">>) ELSE req.mode.v,
               batch |-> OrZero(parseInt(req.batch))])

\* Lines 419-426 and 62-115: getContentType returns, the text is extracted,
\* bounded and sent.
GetContentTypeReturn ==
    /\ pc = "getContentType"
    /\ ready.k # "none"
    /\ LET contentType == IF ready.k = "rejected" \/ ~ready.header.has THEN << >>
                          ELSE ready.header.v
       IN extractedText' = Extracted(contentType)
    /\ LET final == Bounded(extractedText')
       IN IF TooShort(final)
          THEN Respond(Failure(400, MsgNoText))
          ELSE Respond(Success(final))
    /\ UNCHANGED <<req, timer, status, contentLength, htmlContent, text, reads, calls, net,
                   error>>

\* ------------------------------------------------------------------------
\* The remote and the timer
\* ------------------------------------------------------------------------

\* fetch(url) reaches a remote only over http and https; with any other
\* scheme it rejects.
Fetchable ==
    ParseURL(req.url.v).protocol \in {S(<<"h", "t", "t", "p">>), S(<<"h", "t", "t", "p", "s">>)}

\* A HEAD request settles: the remote cannot be reached, or it answers with
\* headers; only the header its caller reads is kept.  The Content-Length
\* is absent, 1000000, 1000001 or not a number; the Content-Type is absent,
\* text/plain or text/html.
NetHead ==
    /\ inflight = "head"
    /\ ready.k = "none"
    /\ \/ ready' = Rejected(FetchFailed)
       \/ /\ pc = "checkFileSize"
          /\ Fetchable
          /\ \E h \in {Undefined,
                       Val(S(<<"1", "0", "0", "0", "0", "0", "0">>)),
                       Val(S(<<"1", "0", "0", "0", "0", "0", "1">>)),
                       Val(S(<<"m", "a", "n", "y">>))} :
                ready' = Headers(200, h)
       \/ /\ pc = "getContentType"
          /\ Fetchable
          /\ \E h \in {Undefined,
                       Val(S(<<"t", "e", "x", "t", "/", "p", "l", "a", "i", "n", ";", " ",
                               "c", "h", "a", "r", "s", "e", "t", "=", "u", "t", "f", "-", "8">>)),
                       Val(S(<<"t", "e", "x", "t", "/", "h", "t", "m", "l">>))} :
                ready' = Headers(200, h)
    /\ UNCHANGED <<req, pc, inflight, timer, status, contentLength, htmlContent, extractedText, text,
                   reads, calls, net, error, responses>>

\* A GET request settles: the remote cannot be reached, or it answers with
\* a status line and headers.
NetGet ==
    /\ inflight = "get"
    /\ ready.k = "none"
    /\ \/ ready' = Rejected(FetchFailed)
       \/ Fetchable /\ \E st \in {200, 206, 404} : ready' = Headers(st, Undefined)
    /\ UNCHANGED <<req, pc, inflight, timer, status, contentLength, htmlContent, extractedText, text,
                   reads, calls, net, error, responses>>

\* The body of the response arrives, or the connection breaks.  A 206
\* answer carries at most the bytes of the requested range; any other answer
\* carries the whole resource.
NetBody ==
    /\ inflight = "body"
    /\ ready.k = "none"
    /\ \/ ready' = Rejected(Terminated)
       \/ \E b \in Bodies :
             /\ status = 206 /\ net[Len(net)].range # << >>
                    => StrLen(b) <= net[Len(net)].range[2] - net[Len(net)].range[1] + 1
             /\ ready' = Body(b)
    /\ UNCHANGED <<req, pc, inflight, timer, status, contentLength, htmlContent, extractedText, text,
                   reads, calls, net, error, responses>>

\* A read of the streamed body settles with a chunk, with the end of the
\* stream, or with a broken connection.  A chunk is 5,000 words in 10,000
\* characters, or seven characters.
NetRead ==
    /\ inflight = "read"
    /\ ready.k = "none"
    /\ \/ /\ ready' = Rejected(Terminated)
          /\ UNCHANGED reads
       \/ /\ ready' = [NoResult EXCEPT !.k = "resolved", !.done = TRUE]
          /\ UNCHANGED reads
       \/ /\ reads < MaxChunks
          /\ reads' = reads + 1
          /\ \E c \in {<< <<"z ", 4999>>, <<"z", 1>>, <<" ", 1>> >>, Zs(7)} :
                ready' = Body(c)
    /\ UNCHANGED <<req, pc, inflight, timer, status, contentLength, htmlContent, extractedText, text,
                   calls, net, error, responses>>

\* The timer of fetchComplete, fetchSample or fetchBatch fires and aborts
\* the controller: the fetch that carries the signal, if still pending,
\* rejects.
TimerFire ==
    /\ timer = "armed"
    /\ ready.k = "none"
    /\ timer' = "fired"
    /\ ready' = IF inflight = "get" /\ net[Len(net)].signal THEN Rejected(Aborted) ELSE ready
    /\ UNCHANGED <<req, pc, inflight, status, contentLength, htmlContent, extractedText, text,
                   reads, calls, net, error, responses>>

\* The steps of the handler: the JavaScript event loop runs a continuation
\* once the promise it awaits has settled.
Handler ==
    \/ Validate
    \/ CheckFileSizeReturn
    \/ FetchCompleteReturn
    \/ FetchSampleReturn
    \/ FetchBatchReturn
    \/ CompleteTextReturn
    \/ RangeTextReturn
    \/ EarlyStopFetchReturn
    \/ ReadReturn
    \/ GetContentTypeReturn

Next ==
    \/ Validate
    \/ CheckFileSizeReturn
    \/ FetchCompleteReturn
    \/ FetchSampleReturn
    \/ FetchBatchReturn
    \/ CompleteTextReturn
    \/ RangeTextReturn
    \/ EarlyStopFetchReturn
    \/ ReadReturn
    \/ GetContentTypeReturn
    \/ NetHead
    \/ NetGet
    \/ NetBody
    \/ NetRead
    \/ TimerFire

Spec == Init /\ [][Next]_vars

\* The handler can run: it has not started yet, or the promise it awaits
\* has settled.
Runnable == pc # "done" /\ (pc = "start" \/ ready.k # "none")

\* The handler resumes: it takes the settled result and runs to its next
\* await, or to its end.
Resume ==
    /\ Runnable
    /\ pc' \in
       {"start", "checkFileSize", "fetchComplete", "fetchSample", "fetchBatch",
        "fetchComplete.text", "fetchSample.text", "fetchBatch.text", "fetchWithEarlyStop",
        "fetchWithEarlyStop.read", "getContentType", "done"}
    /\ ready' = NoResult

\* While the handler can run nothing else happens, and its steps are the
\* steps that resume it.
HandlerResumes ==
    /\ [][Runnable => Handler]_vars
    /\ [][Handler => Resume /\ <<pc, ready>>' # <<pc, ready>>]_vars

\* The event loop resumes the handler once the promise it awaits has
\* settled.  By HandlerResumes this is weak fairness of Handler.
FairSpec == Spec /\ WF_<<pc, ready>>(Resume)
\* ------------------------------------------------------------------------
\* Extraction on its own
\*
\* The handler as it awaits getContentType with the body fetched, for
\* documents and URLs that exercise the extraction strategies; and
\* cleanText applied to a string and to its own result.
\* ------------------------------------------------------------------------

\* Largest number of tokens in an input of cleanText.
MaxTokens == 2

\* A document with a block for every strategy.
SiteDocument ==
    S(<<"<", "i", "m", "g", " ", "a", "l", "t", "=", "\"", "u", "n", "s", "e", "n", "t", " ", "m", "e", "s", "s", "a", "g", "e", " ", "o", "n", "e", "\"", ">">>)
    \o S(<<"<", "h", "3", ">", "R", "t", "<", "/", "h", "3", ">">>)
    \o S(<<"<", "d", "i", "v", " ", "d", "a", "t", "a", "-", "t", "e", "s", "t", "i", "d", "=", "\"", "t", "w", "e", "e", "t", "T", "e", "x", "t", "\"", ">", "T", "w", "<", "/", "d", "i", "v", ">">>)
    \o Para(Zs(21))
    \o S(<<"<", "a", " ", "c", "l", "a", "s", "s", "=", "\"", "s", "t", "o", "r", "y", "l", "i", "n", "k", "\"", ">", "H", "n", "<", "/", "a", ">">>)
    \o S(<<"<", "d", "i", "v", " ", "c", "l", "a", "s", "s", "=", "\"", "s", "-", "p", "r", "o", "s", "e", "\"", ">">>) \o Zs(22) \o S(<<"<", "/", "d", "i", "v", ">">>)
    \o S(<<"<", "d", "i", "v", " ", "c", "l", "a", "s", "s", "=", "\"", "m", "a", "r", "k", "d", "o", "w", "n", "-", "b", "o", "d", "y", "\"", ">">>) \o Zs(24) \o S(<<"<", "/", "d", "i", "v", ">">>)

\* The documents: HTML served under the URLs of ExtractUrls, and texts with
\* Gutenberg markers served under UrlText.
Documents ==
    [html |-> {SiteDocument, Para(Zs(60)), Para(Zs(51)) \o Para(Zs(52)), Zs(60), << >>},
     text |-> {S(<<"*", "*", "*", " ", "S", "T", "A", "R", "T", " ", "O", "F", " ", "E", "X", "A", "M", "P", "L", "E", " ", "*", "*", "*", "b", "o", "d", "y", " ", "t", "e", "x", "t", "*", "*", "*", " ", "E", "N", "D", " ", "O", "F", " ", "E", "X", "A", "M", "P", "L", "E", " ", "*", "*", "*">>),
               S(<<"*", "*", "*", " ", "S", "T", "A", "R", "T", " ", "O", "F", " ", "E", "X", "A", "M", "P", "L", "E", " ", "*", "*", "*", "\n">>) \o Zs(60) \o S(<<"\n", "*", "*", "*", " ", "E", "N", "D", " ", "O", "F", " ", "E", "X", "A", "M", "P", "L", "E", " ", "*", "*", "*">>),
               S(<<"*", "*", "*", " ", "S", "T", "A", "R", "T", " ", "O", "F", " ", "E", "X", "A", "M", "P", "L", "E", " ", "*", "*", "*", "*", "*", "*", " ", "E", "N", "D", " ", "O", "F", " ", "E", "X", "A", "M", "P", "L", "E", " ", "*", "*", "*">>),
               S(<<"*", "*", "*", " ", "S", "T", "A", "R", "T", " ", "O", "F", " ", "E", "X", "A", "M", "P", "L", "E", " ", "*", "*", "*", "\n">>) \o [i \in 1..MinOutput |-> <<" ", 1>>]
                   \o S(<<"\n", "*", "*", "*", " ", "E", "N", "D", " ", "O", "F", " ", "E", "X", "A", "M", "P", "L", "E", " ", "*", "*", "*">>),
               S(<<"a", "\n", "*", "*", "*", " ", "S", "T", "A", "R", "T", " ", "O", "F", " ", "X", " ", "*", "*", "*", "\n", "*", "*", "*", " ", "E", "N", "D", " ", "O", "F", " ", "X", " ", "*", "*", "*", "\n">>) \o Zs(60),
               Zs(60)}]

\* fetchComplete has returned a document and the handler awaits
\* getContentType; or cleanText is about to be called with a string.
ExtractInit ==
    LET ExtractUrls ==
            {S(<<"h", "t", "t", "p", ":", "/", "/", "t", "h", "e", "u", "n", "s", "e", "n", "t", "p", "r", "o", "j", "e", "c", "t", ".", "c", "o", "m", "/">>), S(<<"h", "t", "t", "p", "s", ":", "/", "/", "w", "w", "w", ".", "r", "e", "d", "d", "i", "t", ".", "c", "o", "m", "/", "r", "/", "x">>),
             S(<<"h", "t", "t", "p", ":", "/", "/", "t", "w", "i", "t", "t", "e", "r", ".", "c", "o", "m", "/", "a">>), S(<<"h", "t", "t", "p", ":", "/", "/", "x", ".", "c", "o", "m", "/", "a">>), S(<<"h", "t", "t", "p", ":", "/", "/", "n", "e", "t", "f", "l", "i", "x", ".", "c", "o", "m", "/">>),
             S(<<"h", "t", "t", "p", ":", "/", "/", "m", "e", "d", "i", "u", "m", ".", "c", "o", "m", "/">>), S(<<"h", "t", "t", "p", "s", ":", "/", "/", "a", ".", "s", "u", "b", "s", "t", "a", "c", "k", ".", "c", "o", "m", "/", "p">>),
             S(<<"h", "t", "t", "p", ":", "/", "/", "n", "e", "w", "s", ".", "y", "c", "o", "m", "b", "i", "n", "a", "t", "o", "r", ".", "c", "o", "m", "/">>), S(<<"h", "t", "t", "p", ":", "/", "/", "s", "t", "a", "c", "k", "o", "v", "e", "r", "f", "l", "o", "w", ".", "c", "o", "m", "/", "q">>),
             S(<<"h", "t", "t", "p", ":", "/", "/", "e", "n", ".", "w", "i", "k", "i", "p", "e", "d", "i", "a", ".", "o", "r", "g", "/", "w", "i", "k", "i">>), S(<<"h", "t", "t", "p", ":", "/", "/", "g", "i", "t", "h", "u", "b", ".", "c", "o", "m", "/", "a">>),
             S(<<"H", "T", "T", "P", ":", "/", "/", "G", "i", "t", "H", "u", "b", ".", "C", "O", "M", "/", "a">>), S(<<"h", "t", "t", "p", ":", "/", "/", "r", "e", "d", "d", "i", "t", ".", "c", "o", "m", ".", "m", "e", "d", "i", "u", "m", ".", "c", "o", "m", "/">>),
             S(<<"h", "t", "t", "p", ":", "/", "/", "g", "i", "t", "h", "u", "b", ".", "c", "o", "m", ".", "w", "i", "k", "i", "p", "e", "d", "i", "a", ".", "o", "r", "g", "/">>), S(<<"h", "t", "t", "p", ":", "/", "/", "a", ".", "i", "o", "/", "r", "e", "d", "d", "i", "t", ".", "c", "o", "m">>),
             S(<<"h", "t", "t", "p", "s", ":", "/", "/", "a", ".", "i", "o", "/", "p", "?", "u", "=", "g", "i", "t", "h", "u", "b", ".", "c", "o", "m">>), UrlHtml}
        \* The strings cleanText is applied to: up to MaxTokens tokens, among them
        \* entities, the tails of entities and the characters of a tag.
        CleanInputs ==
            LET Tokens == {S(<<"&", "a", "m", "p", ";">>), S(<<"a", "m", "p", ";">>), S(<<"&", "l", "t", ";">>), S(<<"l", "t", ";">>), S(<<"&", "g", "t", ";">>),
                           S(<<"&", "q", "u", "o", "t", ";">>), S(<<"q", "u", "o", "t", ";">>), S(<<"b">>), S(<<" ">>)}
            IN {JoinWith(ts, << >>) : ts \in UNION {[1..n -> Tokens] : n \in 0..MaxTokens}}
    IN
    /\ \/ /\ pc = "getContentType"
          /\ \/ req \in [method : {"GET"}, url : {Val(u) : u \in ExtractUrls},
                         mode : {Undefined}, batch : {Undefined}]
                /\ htmlContent \in Documents.html
             \/ req = [method |-> "GET", url |-> Val(UrlText), mode |-> Undefined,
                       batch |-> Undefined]
                /\ htmlContent \in Documents.text
          /\ inflight = "head"
          /\ timer = "cleared"
          /\ status = 200
          /\ calls = <<"checkFileSize", "fetchComplete", "getContentType">>
          /\ net = <<Request("checkFileSize", "HEAD", << >>, FALSE),
                     Request("fetchComplete", "GET", << >>, TRUE),
                     Request("getContentType", "HEAD", << >>, FALSE)>>
          /\ text = << >>
       \/ /\ pc = "cleanText"
          /\ req = [method |-> "GET", url |-> Val(UrlHtml), mode |-> Undefined,
                    batch |-> Undefined]
          /\ htmlContent = << >>
          /\ inflight = "none"
          /\ timer = "none"
          /\ status = 0
          /\ calls = << >>
          /\ net = << >>
          /\ text \in CleanInputs
    /\ ready = NoResult
    /\ contentLength = Num(0)
    /\ extractedText = << >>
    /\ reads = 0
    /\ error = NoError
    /\ responses = << >>

\* Lines 393-405: cleanText is called with text.
CleanTextCall ==
    /\ pc = "cleanText"
    /\ extractedText' = cleanText(text)
    /\ pc' = "cleanText.again"
    /\ UNCHANGED <<req, inflight, ready, timer, status, contentLength, htmlContent, text, reads,
                   calls, net, error, responses>>

\* cleanText is called with the result of the first call, as
\* extractGenericContent does with the paragraphs it has cleaned (lines 374
\* and 389).
CleanTextAgain ==
    /\ pc = "cleanText.again"
    /\ text' = extractedText
    /\ extractedText' = cleanText(extractedText)
    /\ pc' = "cleanText.done"
    /\ UNCHANGED <<req, inflight, ready, timer, status, contentLength, htmlContent, reads,
                   calls, net, error, responses>>

ExtractSpec ==
    ExtractInit /\ [][NetHead \/ GetContentTypeReturn \/ CleanTextCall \/ CleanTextAgain]_vars

\* ------------------------------------------------------------------------
\* Properties
\* ------------------------------------------------------------------------

SampleMode == Val(S(<<"s", "a", "m", "p", "l", "e">>))

BatchMode == Val(S(<<"b", "a", "t", "c", "h">>))

\* The responses that carry text.
IsSuccess(r) == r.status = 200 /\ "text" \in DOMAIN r.body

\* The handler is past the size probe.
Probed == Len(calls) >= 1 /\ pc # "checkFileSize"

\* The HEAD request of checkFileSize has failed, has answered without a
\* Content-Length, or has answered with a size of at most 1,000,000.
SmallProbe ==
    \/ ready.k = "rejected"
    \/ Falsy(ready.header)
    \/ ~parseInt(ready.header).nan /\ parseInt(ready.header).v <= 1000000

Fetchers == {"fetchComplete", "fetchSample", "fetchBatch", "fetchWithEarlyStop"}

\* C1: when the size probe fails, reports no Content-Length or reports a
\* size of at most 1,000,000 bytes, the handler fetches the body with
\* fetchComplete, whatever the mode of the request, and neither fetchSample
\* nor fetchBatch is called for that request.
C1_SmallProbeFetchesComplete ==
    /\ [][pc = "checkFileSize" /\ pc' # "checkFileSize" /\ SmallProbe
            => /\ pc' = "fetchComplete"
               /\ calls' = <<"checkFileSize", "fetchComplete">>
               /\ net'[2] = Request("fetchComplete", "GET", << >>, TRUE)]_vars
    /\ [](Len(calls) >= 2 /\ calls[2] = "fetchComplete"
            => \A k \in 1..Len(calls) : calls[k] \notin Fetchers \ {"fetchComplete"})

\* A request with mode=batch whose probe reported exactly 1,000,000 bytes
\* has been answered with the text fetchComplete fetched.
C1_Witness ==
    /\ req.mode = BatchMode
    /\ contentLength = Num(1000000)
    /\ calls = <<"checkFileSize", "fetchComplete", "getContentType">>
    /\ pc = "done"
    /\ IsSuccess(responses[1])
\* The size probe reported more than 1,000,000 bytes.
LargeProbe == ~contentLength.nan /\ contentLength.v > 1000000

\* C2: when the probed size is above 1,000,000 bytes and the mode is unset,
\* the handler ends with the mode-choice response (success, isLargeFile, the
\* probed size) as its only response, issues no request but the probe, and
\* returns no text.
C2_LargeUnsetModeAsksForMode ==
    Probed /\ LargeProbe /\ Falsy(req.mode)
        => /\ pc = "done"
           /\ calls = <<"checkFileSize">>
           /\ net = <<Request("checkFileSize", "HEAD", << >>, FALSE)>>
           /\ Len(responses) = 1
           /\ responses[1].status = 200
           /\ "text" \notin DOMAIN responses[1].body
           /\ responses[1].body.success = TRUE
           /\ responses[1].body.isLargeFile = TRUE
           /\ responses[1].body.fileSize = contentLength.v

\* A request without mode whose probe reported 1,000,001 bytes has been
\* answered with the mode-choice response.
C2_Witness ==
    /\ Falsy(req.mode)
    /\ pc = "done"
    /\ contentLength = Num(1000001)
    /\ Len(responses) = 1
    /\ "isLargeFile" \in DOMAIN responses[1].body
    /\ responses[1].body.fileSize = 1000001
    /\ htmlContent = << >>

\* The fetchers that carry out a plan.
PlanCalls == {k \in 1..Len(calls) : calls[k] \in {"fetchComplete", "fetchSample", "fetchBatch"}}

\* C3: when the probed size is above 1,000,000 bytes, mode=sample calls
\* fetchSample and mode=batch calls fetchBatch with the batch index of the
\* request, or index 0 when the request gives none; at most one plan is
\* carried out per request, and which one is a function of the probed size
\* and the mode alone.
C3_LargeSampleOrBatchPlan ==
    /\ Probed /\ LargeProbe /\ req.mode = SampleMode
        => Len(calls) >= 2 /\ calls[2] = "fetchSample" /\ net[2].fn = "fetchSample"
    /\ Probed /\ LargeProbe /\ req.mode = BatchMode
        => /\ Len(calls) >= 2 /\ calls[2] = "fetchBatch" /\ net[2].fn = "fetchBatch"
           /\ \A i \in 0..MaxBatch :
                 req.batch = Val(IntToStr(i)) => net[2].range[1] = i * 150000
           /\ req.batch = Undefined => net[2].range[1] = 0
    /\ Cardinality(PlanCalls) <= 1
    /\ Probed /\ ~(LargeProbe /\ Falsy(req.mode)) => PlanCalls = {2}
    /\ Len(calls) >= 2
        => calls[2] = IF LargeProbe /\ req.mode = SampleMode THEN "fetchSample"
                      ELSE IF LargeProbe /\ req.mode = BatchMode THEN "fetchBatch"
                      ELSE "fetchComplete"

\* A request with mode=batch and no batch index, whose probe reported
\* 1,000,001 bytes, has been answered with the text of batch 0.
C3_Witness ==
    /\ req.mode = BatchMode
    /\ req.batch = Undefined
    /\ contentLength = Num(1000001)
    /\ Len(net) >= 2
    /\ net[2] = Request("fetchBatch", "GET", <<0, 149999>>, TRUE)
    /\ pc = "done"
    /\ IsSuccess(responses[1])
    /\ responses[1].body.batch = 0
\* C4: every success response that carries text has a text of at least 50
\* and at most 100,000 characters, whatever the mode, the plan and the
\* fetched body, the truncation marker included.
C4_TextLengthBounded ==
    \A k \in 1..Len(responses) :
        IsSuccess(responses[k])
            => /\ StrLen(responses[k].body.text) >= 50
               /\ StrLen(responses[k].body.text) <= 100000

\* A request without mode has been answered with a text of 100,028
\* characters: 100,000 characters of the extracted text and the marker.
C4_Witness ==
    /\ Falsy(req.mode)
    /\ pc = "done"
    /\ StrLen(extractedText) = 100001
    /\ IsSuccess(responses[1])
    /\ StrLen(responses[1].body.text) = 100028

\* C5: every success response carries a truncated flag, which is true
\* exactly when the extracted text was longer than 100,000 characters before
\* the truncation and the mode is not sample.
C5_TruncatedFlag ==
    \A k \in 1..Len(responses) :
        IsSuccess(responses[k])
            => /\ "truncated" \in DOMAIN responses[k].body
               /\ responses[k].body.truncated = TRUE
                    <=> StrLen(extractedText) > 100000 /\ req.mode # SampleMode

\* A truncated text has been sent in a response that has the fields
\* success, text, wordCount, url, mode and batch, and no other.
C5_Witness ==
    /\ pc = "done"
    /\ req.mode # SampleMode
    /\ StrLen(extractedText) > 100000
    /\ IsSuccess(responses[1])
    /\ DOMAIN responses[1].body = {"success", "text", "wordCount", "url", "mode", "batch"}
\* C6: for every batch index i >= 0 fetchBatch requests exactly the bytes
\* i*150,000 to i*150,000 + 149,999; the windows of consecutive indices are
\* disjoint and contiguous: index 0 requests 0-149999 and index 1 requests
\* 150000-299999.
C6_BatchWindows ==
    /\ \A i \in 0..(MaxBatch + 1) :
          /\ BatchRange(i) = <<i * 150000, i * 150000 + 149999>>
          /\ BatchRange(i)[2] + 1 = BatchRange(i + 1)[1]
    /\ BatchRange(0) = <<0, 149999>>
    /\ BatchRange(1) = <<150000, 299999>>
    /\ \A k \in 1..Len(net) :
          net[k].fn = "fetchBatch"
              => /\ net[k].method = "GET"
                 /\ \A i \in 0..MaxBatch :
                       req.batch = Val(IntToStr(i))
                           => net[k].range = <<i * 150000, i * 150000 + 149999>>

\* Batch 1 has been requested as bytes 150000-299999, answered with 206 and
\* its text returned.
C6_Witness ==
    /\ req.batch = Val(IntToStr(1))
    /\ Len(net) >= 2
    /\ net[2] = Request("fetchBatch", "GET", <<150000, 299999>>, TRUE)
    /\ status = 206
    /\ pc = "done"
    /\ IsSuccess(responses[1])
    /\ responses[1].body.batch = 1

\* C7: a request whose url does not parse, or parses with a scheme other
\* than http and https, ends in the invalid-input response (400, 'Invalid
\* URL') and no network operation is started for it: no size probe, no
\* fetch, no content-type probe.
C7_InvalidUrlNoNetwork ==
    /\ ~Falsy(req.url)
    /\ pc # "start"
    /\ \/ ~ParseURL(req.url.v).ok
       \/ ParseURL(req.url.v).protocol \notin {S(<<"h", "t", "t", "p">>), S(<<"h", "t", "t", "p", "s">>)}
    => /\ calls = << >>
       /\ net = << >>
       /\ pc = "done"
       /\ responses = <<Failure(400, MsgInvalidUrl)>>

\* The request for ftp://a.io/b.txt has gone through the size probe and the
\* complete fetch, and has been answered with 500 'Could not connect to URL'.
C7_Witness ==
    /\ req.url = Val(UrlFtp)
    /\ calls = <<"checkFileSize", "fetchComplete">>
    /\ Len(net) = 2
    /\ pc = "done"
    /\ responses = <<Failure(500, MsgNoConnect)>>
\* C8: every request gets exactly one response: on every path through the
\* handler a response is sent once and never a second one, the handler is
\* done exactly when it has responded, and unless a network operation stays
\* pending for ever a response is eventually sent.
C8_ExactlyOneResponse ==
    /\ [](Len(responses) <= 1)
    /\ [](pc = "done" <=> Len(responses) = 1)
    /\ [][responses # << >> => responses' = responses]_vars
    /\ (<>[](inflight # "none" /\ ready.k = "none") \/ <>(Len(responses) = 1))

\* The timer has aborted the fetch and the handler has answered 500
\* 'Request timed out', once.
C8_Witness ==
    /\ pc = "done"
    /\ timer = "fired"
    /\ error = Aborted
    /\ responses = <<Failure(500, MsgTimedOut)>>

\* C9: when the final text is shorter than 50 characters, the empty text
\* extracted from a document without tags and text included, the request
\* ends in the failure 'Could not extract meaningful text from this URL'
\* and never in a success response.
C9_ShortTextIsFailure ==
    /\ \A k \in 1..Len(responses) :
          IsSuccess(responses[k]) => StrLen(responses[k].body.text) >= 50
    /\ /\ pc = "done"
       /\ calls # << >>
       /\ calls[Len(calls)] = "getContentType"
       /\ StrLen(extractedText) < 50
       => responses = <<Failure(400, MsgNoText)>>

\* The empty document of an HTML page has been extracted to the empty text
\* and answered with the failure.
C9_Witness ==
    /\ req.url = Val(UrlHtml)
    /\ pc = "done"
    /\ calls # << >>
    /\ calls[Len(calls)] = "getContentType"
    /\ htmlContent = << >>
    /\ extractedText = << >>
    /\ responses = <<Failure(400, MsgNoText)>>

\* C10: when fetchComplete reads a body longer than 500,000 characters the
\* request ends in a failure response and never in a success response, also
\* when the size probe reported at most 1,000,000 bytes or no size.
C10_OversizeCompleteFails ==
    /\ [][pc = "fetchComplete.text" /\ ready.k = "resolved" /\ StrLen(ready.text) > 500000
            => /\ pc' = "done"
               /\ calls' = calls
               /\ responses' = <<Failure(500, MsgFailed)>>]_vars
    /\ [](\A k \in 1..Len(responses) :
             IsSuccess(responses[k]) /\ calls[2] = "fetchComplete"
                 => StrLen(htmlContent) <= 500000)

\* After a probe without Content-Length fetchComplete has thrown 'File too
\* large for complete processing' and the handler has answered 500.
C10_Witness ==
    /\ contentLength = Num(0)
    /\ calls = <<"checkFileSize", "fetchComplete">>
    /\ error.message = S(<<"F", "i", "l", "e", " ", "t", "o", "o", " ", "l", "a", "r", "g", "e", " ", "f", "o", "r", " ", "c", "o", "m", "p", "l", "e", "t", "e", " ", "p", "r", "o", "c", "e", "s", "s", "i", "n", "g">>)
    /\ pc = "done"
    /\ responses = <<Failure(500, MsgFailed)>>
\* C11: every network operation of a request (the size probe, the fetch of
\* the body and the reading of it, the streaming fallback, the content-type
\* probe) runs under a timer: while the operation is pending the timer is
\* armed and the request carries the signal the timer aborts.
C11_EveryOperationTimed ==
    inflight # "none" /\ ready.k = "none" => timer = "armed" /\ net[Len(net)].signal

\* The body of fetchComplete is being read after the timer was cleared, and
\* nothing bounds the read.
C11_Witness ==
    /\ pc = "fetchComplete.text"
    /\ inflight = "body"
    /\ ready.k = "none"
    /\ timer = "cleared"

\* C12: after a transport failure or a timeout of a network operation no
\* further network operation is issued for the request, and the step that
\* takes the failure sends the failure response.
C12_NoOperationAfterFailure ==
    [][ready.k = "rejected"
         => /\ net' = net
            /\ Len(responses') = 1
            /\ responses'[1].status = 500]_vars

\* Every fetch of an ftp URL rejects; the size probe has failed and the
\* handler has gone on to issue the GET request of fetchComplete.
C12_Witness ==
    /\ req.url = Val(UrlFtp)
    /\ pc = "fetchComplete"
    /\ net = <<Request("checkFileSize", "HEAD", << >>, FALSE),
               Request("fetchComplete", "GET", << >>, TRUE)>>
\* C13: when the fetch of the body rejects because the remote cannot be
\* reached the response is the failure "Could not connect to URL", when it
\* rejects because its timer aborted it the response is the failure
\* "Request timed out"; this holds for fetchComplete, fetchSample,
\* fetchBatch and fetchWithEarlyStop, and the two error values differ.
C13_UnreachableAndTimeoutDiffer ==
    /\ [][ready.k = "rejected" /\ pc \in Fetchers /\ ready = Rejected(FetchFailed)
            => responses' = Append(<< >>, Failure(500, MsgNoConnect))]_vars
    /\ [][ready.k = "rejected" /\ pc \in Fetchers /\ ready = Rejected(Aborted)
            => responses' = Append(<< >>, Failure(500, MsgTimedOut))]_vars
    /\ [](MsgNoConnect # MsgTimedOut)

\* The fetch of fetchBatch was aborted by its timer and the request has been
\* answered with the timeout failure.
C13_Witness ==
    /\ calls = <<"checkFileSize", "fetchBatch">>
    /\ timer = "fired"
    /\ error = Aborted
    /\ responses = <<Failure(500, MsgTimedOut)>>
\* C14: when the fetch of fetchBatch resolves with a status that is neither
\* in 200..299 nor 206, the request ends there with a failure response
\* that carries no text; no other fetcher is called and no further network
\* request is issued for the request, then or later.
C14_BatchFailureIsFinal ==
    /\ [][/\ pc = "fetchBatch"
          /\ ready.k = "resolved"
          /\ ~(ready.status >= 200 /\ ready.status <= 299)
          /\ ready.status # 206
          => /\ pc' = "done"
             /\ calls' = calls
             /\ net' = net
             /\ Len(responses') = 1
             /\ responses'[1].status = 500
             /\ responses'[1].body.success = FALSE
             /\ "text" \notin DOMAIN responses'[1].body]_vars
    /\ [][pc = "done" => calls' = calls /\ net' = net /\ responses' = responses]_vars

\* The fetch of batch 2 was answered 404 and the request has ended with a
\* failure after the one GET request of fetchBatch.
C14_Witness ==
    /\ req.batch = Val(IntToStr(2))
    /\ calls = <<"checkFileSize", "fetchBatch">>
    /\ status = 404
    /\ pc = "done"
    /\ Len(net) = 2
    /\ responses[1].status = 500
\* C15: a failure raised by a fetcher is surfaced verbatim: the error value
\* of the failure response is the message of the error the handler caught.
C15_ErrorIsFetcherMessage ==
    error # NoError /\ responses # << >> => responses[1].body.error = error.message

\* fetchBatch has thrown "Batch fetch failed: 404" and the response carries
\* the error value of an unreachable remote.
C15_Witness ==
    /\ error = Error("Error", S(<<"B", "a", "t", "c", "h", " ", "f", "e", "t", "c", "h", " ", "f", "a", "i", "l", "e", "d", ":", " ", "4", "0", "4">>))
    /\ responses = <<Failure(500, MsgNoConnect)>>
\* C16: cleanText is idempotent: applied to its own result it returns that
\* result unchanged.
C16_CleanTextIdempotent ==
    pc = "cleanText.done" => extractedText = text

\* cleanText has returned "&amp;" (for the input "&amp;amp;") and, applied
\* to that result, has returned "&".
C16_Witness ==
    /\ pc = "cleanText.done"
    /\ text = S(<<"&", "a", "m", "p", ";">>)
    /\ extractedText = S(<<"&">>)
\* The plain text whose START marker is directly followed by body and body
\* directly by the END marker.
Marked(body) ==
    S(<<"*", "*", "*", " ", "S", "T", "A", "R", "T", " ", "O", "F", " ", "E", "X", "A", "M", "P", "L", "E", " ", "*", "*", "*">>) \o body \o S(<<"*", "*", "*", " ", "E", "N", "D", " ", "O", "F", " ", "E", "X", "A", "M", "P", "L", "E", " ", "*", "*", "*">>)

\* C17: for a plain text that consists of a "*** START OF EXAMPLE ***"
\* marker, a body and a "*** END OF EXAMPLE ***" marker, the text extracted
\* is the trimmed body, whether the body is on the line of the markers, on
\* lines of its own, or empty.
C17_GutenbergBody ==
    \A body \in {S(<<"b", "o", "d", "y", " ", "t", "e", "x", "t">>), S(<<"\n">>) \o Zs(60) \o S(<<"\n">>), << >>} :
        pc = "done" /\ req.url = Val(UrlText) /\ htmlContent = Marked(body)
            => extractedText = Trim(body)

\* The text "*** START OF EXAMPLE ***body text*** END OF EXAMPLE ***" served
\* under gutenberg.org/b.txt has been extracted to the empty text and the
\* request has failed.
C17_Witness ==
    /\ pc = "done"
    /\ req.url = Val(UrlText)
    /\ htmlContent = Marked(S(<<"b", "o", "d", "y", " ", "t", "e", "x", "t">>))
    /\ extractedText = << >>
    /\ responses = <<Failure(400, MsgNoText)>>
\* The handler takes the plain-text branch: the Content-Type names
\* text/plain or the URL ends in .txt.
IsPlain ==
    \/ ready.k = "resolved" /\ ready.header.has /\ Includes(ready.header.v, <<"t", "e", "x", "t", "/", "p", "l", "a", "i", "n">>)
    \/ EndsWith(req.url.v, <<".", "t", "x", "t">>)

\* The priority table: the pattern of each site and what its strategy
\* extracts from doc.
PriorityTable(doc) ==
    << <<<<"t", "h", "e", "u", "n", "s", "e", "n", "t", "p", "r", "o", "j", "e", "c", "t", ".", "c", "o", "m">>, extractUnsentProject(doc)>>,
       <<<<"r", "e", "d", "d", "i", "t", ".", "c", "o", "m">>, extractReddit(doc)>>,
       <<<<"t", "w", "i", "t", "t", "e", "r", ".", "c", "o", "m">>, extractTwitter(doc)>>,
       <<<<"x", ".", "c", "o", "m">>, extractTwitter(doc)>>,
       <<<<"m", "e", "d", "i", "u", "m", ".", "c", "o", "m">>, extractMedium(doc)>>,
       <<<<"s", "u", "b", "s", "t", "a", "c", "k", ".", "c", "o", "m">>, extractSubstack(doc)>>,
       <<<<"n", "e", "w", "s", ".", "y", "c", "o", "m", "b", "i", "n", "a", "t", "o", "r", ".", "c", "o", "m">>, extractHackerNews(doc)>>,
       <<<<"s", "t", "a", "c", "k", "o", "v", "e", "r", "f", "l", "o", "w", ".", "c", "o", "m">>, extractStackOverflow(doc)>>,
       <<<<"w", "i", "k", "i", "p", "e", "d", "i", "a", ".", "o", "r", "g">>, extractWikipedia(doc)>>,
       <<<<"g", "i", "t", "h", "u", "b", ".", "c", "o", "m">>, extractGitHub(doc)>> >>

\* What the first entry of table whose pattern occurs in host extracts, and
\* what the generic strategy extracts when there is none.
FirstEntry(table, host, generic) ==
    IF \E k \in 1..Len(table) : Includes(host, table[k][1])
    THEN table[CHOOSE k \in 1..Len(table) :
                   /\ Includes(host, table[k][1])
                   /\ \A j \in 1..(k - 1) : ~Includes(host, table[j][1])][2]
    ELSE generic

\* C18: the text extracted from an HTML document is what the first strategy
\* of the priority table whose pattern occurs in the lower-cased host of
\* the URL extracts, and what the generic strategy extracts when no pattern
\* occurs in the host; path, query and scheme play no part, and the step
\* raises no error.
C18_ClassificationByHost ==
    [][pc = "getContentType" /\ pc' = "done" /\ ~IsPlain
         => /\ extractedText' =
                   FirstEntry(PriorityTable(htmlContent),
                              ToLowerCase(ParseURL(req.url.v).hostname),
                              extractGenericContent(htmlContent))
            /\ error' = NoError
            /\ Len(responses') = 1
            /\ responses'[1].status \in {200, 400}]_vars

\* Under http://a.io/reddit.com, whose path names a site and whose host
\* names none, the document with a block for every strategy has been
\* extracted by the generic strategy and sent.
C18_Witness ==
    /\ pc = "done"
    /\ req.url = Val(S(<<"h", "t", "t", "p", ":", "/", "/", "a", ".", "i", "o", "/", "r", "e", "d", "d", "i", "t", ".", "c", "o", "m">>))
    /\ htmlContent = SiteDocument
    /\ extractedText = S(<<"T", "w", " ">>) \o Zs(22) \o S(<<" ">>) \o Zs(24)
    /\ IsSuccess(responses[1])
\* The whitespace-collapsed plain text of the stripped document: the
\* regions extractGenericContent removes are removed, then the tags, and
\* white space is collapsed.
PlainRendering(doc) == cleanText(ReplaceEach(doc, stripRules, 1, TRUE))

\* C19: extraction ends at the generic strategy: when the strategy chosen
\* for an HTML document matches no block, the text extracted is what the
\* generic strategy extracts; and when no paragraph or heading block of
\* the document matches either, the text extracted contains the
\* whitespace-collapsed plain text of the stripped document.
C19_FallsBackToGeneric ==
    [][pc = "getContentType" /\ pc' = "done" /\ ~IsPlain
         => /\ extractedText' = << >>
                => extractGenericContent(htmlContent) = << >>
            /\ Captures(paragraphRegex, ReplaceEach(htmlContent, stripRules, 1, TRUE), TRUE) = << >>
                => \/ PlainRendering(htmlContent) = << >>
                   \/ IndexOf(extractedText', PlainRendering(htmlContent)) # 0]_vars

\* Under www.reddit.com a document of one paragraph, in which the Reddit
\* strategy matches no block, has been extracted to the empty text and the
\* request has failed, while the generic strategy extracts the paragraph.
C19_Witness ==
    /\ pc = "done"
    /\ req.url = Val(S(<<"h", "t", "t", "p", "s", ":", "/", "/", "w", "w", "w", ".", "r", "e", "d", "d", "i", "t", ".", "c", "o", "m", "/", "r", "/", "x">>))
    /\ htmlContent = Para(Zs(60))
    /\ extractedText = << >>
    /\ extractGenericContent(htmlContent) = Zs(60)
    /\ responses = <<Failure(400, MsgNoText)>>
\* C20: when the plan is not the sample plan and the extracted text is
\* longer than 100,000 characters, the text returned is its first 100,000
\* characters followed by the truncation marker; an extracted text of at
\* most 100,000 characters is returned unchanged.
C20_TruncatesUnlessSamplePlan ==
    pc = "done" /\ responses # << >> /\ IsSuccess(responses[1])
        => /\ (\A k \in 1..Len(calls) : calls[k] # "fetchSample")
                 /\ StrLen(extractedText) > OutputCeiling
              => responses[1].body.text = Take(extractedText, OutputCeiling) \o TruncationMarker
           /\ StrLen(extractedText) <= OutputCeiling
              => responses[1].body.text = extractedText

\* A request with mode=sample whose probe reported no large file was served
\* by fetchComplete, and its extracted text of 100,001 characters has been
\* returned whole.
C20_Witness ==
    /\ pc = "done"
    /\ req.mode = SampleMode
    /\ calls = <<"checkFileSize", "fetchComplete", "getContentType">>
    /\ StrLen(extractedText) = 100001
    /\ IsSuccess(responses[1])
    /\ responses[1].body.text = extractedText
\* A token begins at item i of s: the item is no white space and is the
\* first item or follows white space.
TokenAt(s, i) ==
    /\ ~IsSpaceItem(s[i])
    /\ i = 1 \/ IsSpaceItem(s[i - 1]) \/ s[i - 1][1] = "z "

\* The number of maximal runs of characters other than white space in the
\* items i.. of s; an item <<"z ", n>> holds n words, the first of which may
\* continue the run before it.
RECURSIVE TokensFrom(_, _)
TokensFrom(s, i) ==
    IF i > Len(s) THEN 0
    ELSE (IF s[i][1] = "z " THEN s[i][2] - 1 ELSE 0)
         + (IF TokenAt(s, i) THEN 1 ELSE 0)
         + TokensFrom(s, i + 1)

\* C21: in every success response wordCount is the number of non-empty
\* whitespace-delimited tokens of the text returned, the text after
\* truncation and marker.
C21_WordCountOfFinalText ==
    pc = "done" /\ responses # << >> /\ IsSuccess(responses[1])
        => responses[1].body.wordCount = TokensFrom(responses[1].body.text, 1)

\* A text of 50,001 words was truncated: the text returned holds 50,000 of
\* them and the three words of the marker.
C21_Witness ==
    /\ pc = "done"
    /\ responses # << >>
    /\ IsSuccess(responses[1])
    /\ TokensFrom(extractedText, 1) = 50001
    /\ responses[1].body.text = Take(extractedText, OutputCeiling) \o TruncationMarker
    /\ responses[1].body.wordCount = 50003
\* C22: the range request of fetchSample asks for the bytes 0 to 199,999,
\* the first 200,000 bytes of the resource.
C22_SampleRange ==
    \A k \in 1..Len(net) : net[k].fn = "fetchSample" => net[k].range = <<0, 199999>>

\* fetchSample has asked for the bytes 0 to 200,000 and the remote has
\* answered 206 with 200,001 characters, which fetchSample has returned.
C22_Witness ==
    /\ Len(net) >= 2
    /\ net[2] = Request("fetchSample", "GET", <<0, 200000>>, TRUE)
    /\ status = 206
    /\ pc = "getContentType"
    /\ StrLen(htmlContent) = 200001
\* C23: when the remote answers the range request of fetchSample with
\* anything but 206, fetchSample falls back to fetchWithEarlyStop; and
\* fetchWithEarlyStop goes on reading only while the text it held one check
\* interval (10,000 characters) earlier had not exceeded 15,000 words, so
\* that the text of the sample plan is bounded however the stream is split.
C23_SampleFallsBackAndStops ==
    /\ [][pc = "fetchSample" /\ ready.k = "resolved" /\ ready.status # 206
            => pc' = "fetchWithEarlyStop"]_vars
    /\ [](pc = "fetchWithEarlyStop.read" /\ StrLen(text) > CheckInterval
            => SplitCount(Take(text, StrLen(text) - CheckInterval)) <= targetWords)

\* The remote has ignored the range and answered 200 with 500,001
\* characters; fetchSample has returned them all.
C23_Witness ==
    /\ calls = <<"checkFileSize", "fetchSample", "getContentType">>
    /\ status = 200
    /\ StrLen(htmlContent) = 500001

\* fetchWithEarlyStop holds 40,007 characters in more than 15,000 words
\* and is still reading: no length of the text was a multiple of 10,000.
C23_StillReading ==
    /\ pc = "fetchWithEarlyStop.read"
    /\ StrLen(text) = 40007
    /\ SplitCount(text) > targetWords
\* C24: a request with mode=sample whose probed size is unknown or at most
\* 1,000,000 is served by fetchComplete, and its text is truncated like
\* that of any request served by fetchComplete: an extracted text longer
\* than 100,000 characters is returned as its first 100,000 characters
\* followed by the marker.
C24_SampleModeCompletePlanTruncates ==
    /\ Probed /\ ~LargeProbe /\ req.mode = SampleMode => calls[2] = "fetchComplete"
    /\ pc = "done" /\ responses # << >> /\ IsSuccess(responses[1])
          /\ req.mode = SampleMode /\ calls[2] = "fetchComplete"
          /\ StrLen(extractedText) > OutputCeiling
       => StrLen(responses[1].body.text) = OutputCeiling + StrLen(TruncationMarker)

\* A request with mode=sample whose probe reported exactly 1,000,000 bytes
\* was served by fetchComplete and has been answered with a text of
\* 200,001 characters.
C24_Witness ==
    /\ pc = "done"
    /\ req.mode = SampleMode
    /\ contentLength = Num(1000000)
    /\ calls[2] = "fetchComplete"
    /\ IsSuccess(responses[1])
    /\ StrLen(responses[1].body.text) = 200001
\* C25: a strategy that finds the two paragraphs of a document returns
\* them in document order joined by a blank line ("\n\n").
C25_BlocksJoinedByBlankLine ==
    [][/\ pc = "getContentType"
       /\ pc' = "done"
       /\ ~IsPlain
       /\ htmlContent = Para(Zs(51)) \o Para(Zs(52))
       /\ extractedText' # << >>
       => extractedText' = Zs(51) \o S(<<"\n", "\n">>) \o Zs(52)]_vars

\* Under a host of no site the two paragraphs have been extracted by the
\* generic strategy and returned with a single blank between them.
C25_Witness ==
    /\ pc = "done"
    /\ req.url = Val(UrlHtml)
    /\ htmlContent = Para(Zs(51)) \o Para(Zs(52))
    /\ extractedText = Zs(51) \o S(<<" ">>) \o Zs(52)
    /\ IsSuccess(responses[1])
    /\ responses[1].body.text = extractedText
\* C26: no range request starts at a negative offset, and the window of
\* fetchBatch is that of a batch index that is a natural number.
C26_BatchIndexNatural ==
    \A k \in 1..Len(net) :
        net[k].range # << >>
            => /\ net[k].range[1] >= 0
               /\ net[k].fn = "fetchBatch" => \E n \in 0..MaxBatch : net[k].range = BatchRange(n)

\* The request with batch=-1 has issued the range request for the bytes
\* -150,000 to -1.
C26_Witness ==
    /\ req.batch = Val(S(<<"-", "1">>))
    /\ Len(net) = 2
    /\ net[2] = Request("fetchBatch", "GET", <<-150000, -1>>, TRUE)
\* C27: the timer armed by fetchComplete, fetchSample or fetchBatch is
\* pending only while that call awaits its fetch: once the call has
\* returned or thrown the timer is cleared or has fired, and no timer fires
\* after the response has been sent.
C27_TimerSettledOnExit ==
    /\ [](timer = "armed" => pc \in {"fetchComplete", "fetchSample", "fetchBatch"})
    /\ [][pc = "done" => timer' = timer]_vars

\* The fetch of fetchComplete was rejected because the remote could not be
\* reached, the failure has been sent, and the timer has fired afterwards.
C27_Witness ==
    /\ pc = "done"
    /\ calls = <<"checkFileSize", "fetchComplete">>
    /\ error = FetchFailed
    /\ responses = <<Failure(500, MsgNoConnect)>>
    /\ timer = "fired"
\* C28: every success response has a wordCount of at least 1: no text that
\* consists of white space only is returned.
C28_SuccessHasWords ==
    pc = "done" /\ responses # << >> /\ IsSuccess(responses[1])
        => responses[1].body.wordCount >= 1

\* The Gutenberg text whose markers enclose a line of 50 blanks has been
\* answered with success, a text of 52 white-space characters and
\* wordCount 0.
C28_Witness ==
    /\ pc = "done"
    /\ req.url = Val(UrlText)
    /\ responses # << >>
    /\ IsSuccess(responses[1])
    /\ StrLen(responses[1].body.text) = 52
    /\ \A i \in 1..Len(responses[1].body.text) : IsSpaceItem(responses[1].body.text[i])
    /\ responses[1].body.wordCount = 0

====
